---- MODULE Spec2Model ----
(***************************************************************************)
(* A model of the heuristic resume parser (src/src/lib/parser.ts).         *)
(*                                                                         *)
(* Text is a TLA+ string (a sequence of characters); Len, SubSeq and \o    *)
(* are the only string primitives used.  The model's alphabet is ASCII:    *)
(* a TLA+ string cannot hold U+2022 (the bullet), so the character classes *)
(* that mention it are modelled on ASCII text only.                        *)
(*                                                                         *)
(* A nullable JavaScript value is a sequence of length <= 1: Null is <<>>  *)
(* and a value v is <<v>>.                                                 *)
(***************************************************************************)
EXTENDS Integers, Sequences, FiniteSets, TLC

\* One call of parseResumeText and its result.
VARIABLES text, phase, outcome, result, fed

\* The module-level /g patterns of parser.ts and the calls made so far.
VARIABLES lastIndex, calls

\* The upload route: the request it received, its response, and the number
\* of times it called parseResumeText.  Its body is "form" for form data,
\* "malformed" for a multipart body that does not parse, "notform" for a
\* body whose Content-Type is not one of a form, "none" for no request.
VARIABLES request, response, parseCalls

\* The await the upload route is suspended at, and the outcome of
\* extractTextFromFile once it has one.
VARIABLES uploadPc, uploadText

parserVars == <<text, phase, outcome, result, fed>>

sharedVars == <<lastIndex, calls>>

\* The GitHub route: the body of the request, the place the route has
\* reached, what the GitHub API answered so far, what the route keeps of it,
\* and its response.
VARIABLES ghBody, ghPc, ghSeen, ghData, ghResponse

uploadVars == <<request, response, parseCalls, uploadPc, uploadText>>

githubVars == <<ghBody, ghPc, ghSeen, ghData, ghResponse>>

\* One call of scoreSentence: its argument and the score it returned.
VARIABLES scoreArg, scoreValue

scoreVars == <<scoreArg, scoreValue>>

\* The page component: its useState values, the dependency the effect last
\* ran with and the request it then started, every analytics request made,
\* and the upload request.
VARIABLES page, effect, githubFetches, uploadFetch

pageVars == <<page, effect, githubFetches, uploadFetch>>

vars == <<parserVars, sharedVars, uploadVars, githubVars, scoreVars, pageVars>>

----------------------------------------------------------------------------
(* JavaScript values and string primitives                                 *)

Null == <<>>

Some(v) == <<v>>

IsNull(o) == Len(o) = 0

CharAt(s, i) == SubSeq(s, i, i)

Digits == {"0", "1", "2", "3", "4", "5", "6", "7", "8", "9"}

UpperChars == "ABCDEFGHIJKLMNOPQRSTUVWXYZ"

LowerChars == "abcdefghijklmnopqrstuvwxyz"

UpperSet == {CharAt(UpperChars, i) : i \in 1..26}

LowerSet == {CharAt(LowerChars, i) : i \in 1..26}

Letters == UpperSet \cup LowerSet

\* U+000B, the vertical tab, which has no escape in a TLA+ string.
VerticalTab == ""

\* The characters String.prototype.trim removes and \s matches (ASCII part).
WhiteSpace == {" ", "\t", "\n", "\r", "\f", VerticalTab}

LowerOf == [c \in UpperSet |->
              CharAt(LowerChars, CHOOSE i \in 1..26 : CharAt(UpperChars, i) = c)]

UpperOf == [c \in LowerSet |->
              CharAt(UpperChars, CHOOSE i \in 1..26 : CharAt(LowerChars, i) = c)]

LowerChar(c) == IF c \in UpperSet THEN LowerOf[c] ELSE c

UpperChar(c) == IF c \in LowerSet THEN UpperOf[c] ELSE c

\* Recursion on strings splits the string in two, which keeps it shallow.
RECURSIVE toLowerCase(_)
toLowerCase(s) ==
  IF Len(s) = 0 THEN ""
  ELSE IF Len(s) = 1 THEN LowerChar(s)
  ELSE LET h == Len(s) \div 2
       IN toLowerCase(SubSeq(s, 1, h)) \o toLowerCase(SubSeq(s, h + 1, Len(s)))

\* The least element of a non-empty set of integers.
Least(S) == CHOOSE k \in S : \A j \in S : k <= j

trim(s) ==
  LET solid == {i \in 1..Len(s) : CharAt(s, i) \notin WhiteSpace}
  IN IF solid = {} THEN ""
     ELSE SubSeq(s, Least(solid), CHOOSE k \in solid : \A j \in solid : j <= k)

\* String.prototype.includes
includes(s, sub) ==
  \E i \in 1..(Len(s) - Len(sub) + 1) : SubSeq(s, i, i + Len(sub) - 1) = sub

\* [...new Set(xs)]: the distinct elements in first-seen order.
RECURSIVE Unique(_)
Unique(xs) ==
  IF Len(xs) = 0 THEN <<>>
  ELSE LET init == Unique(SubSeq(xs, 1, Len(xs) - 1))
           x == xs[Len(xs)]
       IN IF \E i \in 1..Len(init) : init[i] = x THEN init ELSE Append(init, x)

\* Array.prototype.slice(0, n)
slice0(xs, n) == SubSeq(xs, 1, IF Len(xs) < n THEN Len(xs) ELSE n)

----------------------------------------------------------------------------
(* Regular expressions: a backtracking matcher with the priorities of the  *)
(* ECMAScript matcher.  A pattern is a sequence of nodes; Ends lists the   *)
(* positions at which a node can stop, in the order the matcher tries them.*)

Cls(cs) == [t |-> "set", neg |-> FALSE, cs |-> cs]

NotCls(cs) == [t |-> "set", neg |-> TRUE, cs |-> cs]

Lit(str) == [t |-> "lit", s |-> str]

Bol == [t |-> "bol"]

Eol == [t |-> "eol"]

Behind(cs) == [t |-> "behind", cs |-> cs]

Group(parts) == [t |-> "seq", parts |-> parts]

Alt(alts) == [t |-> "alt", alts |-> alts]

\* The upper bound of an unbounded quantifier.
Inf == 0 - 1

Rep(sub, min, max) == [t |-> "rep", sub |-> sub, min |-> min, max |-> max, greedy |-> TRUE]

Lazy(sub, min, max) == [t |-> "rep", sub |-> sub, min |-> min, max |-> max, greedy |-> FALSE]

Opt(sub) == Rep(sub, 0, 1)

Plus(sub) == Rep(sub, 1, Inf)

Star(sub) == Rep(sub, 0, Inf)

\* A character against a class.  A class of a pattern with the i flag lists
\* both cases of its letters.
InClass(n, c) == (c \in n.cs) # n.neg

LitAt(str, s, i, ci) ==
  /\ i + Len(str) - 1 <= Len(s)
  /\ \A k \in 1..Len(str) :
       LET c == CharAt(s, i + k - 1)
           d == CharAt(str, k)
       IN IF ci THEN LowerChar(c) = LowerChar(d) ELSE c = d

RECURSIVE Ends(_, _, _, _)
RECURSIVE EndsSeq(_, _, _, _, _)
RECURSIVE EndsSeqFrom(_, _, _, _, _, _)
RECURSIVE EndsAlt(_, _, _, _, _)
RECURSIVE EndsRep(_, _, _, _, _)
RECURSIVE EndsRepFrom(_, _, _, _, _, _)

\* The number of characters from position i on that are in class n, up to cap.
RunLength(n, s, i, cap) ==
  LET hi == IF cap # Inf /\ i + cap - 1 < Len(s) THEN i + cap - 1 ELSE Len(s)
      stop == CHOOSE j \in i..(hi + 1) :
                /\ j = hi + 1 \/ ~InClass(n, CharAt(s, j))
                /\ \A k \in i..(j - 1) : InClass(n, CharAt(s, k))
  IN stop - i

\* A quantified character class: the run of class characters decides the ends.
RunEnds(n, i, run) ==
  IF run < n.min THEN <<>>
  ELSE IF n.greedy THEN [k \in 1..(run - n.min + 1) |-> i + run - k + 1]
  ELSE [k \in 1..(run - n.min + 1) |-> i + n.min + k - 1]

EndsRun(n, s, i) == RunEnds(n, i, RunLength(n.sub, s, i, n.max))

Ends(n, s, i, ci) ==
  CASE n.t = "set" -> IF i <= Len(s) /\ InClass(n, CharAt(s, i))
                      THEN <<i + 1>> ELSE <<>>
    [] n.t = "lit" -> IF LitAt(n.s, s, i, ci) THEN <<i + Len(n.s)>> ELSE <<>>
    [] n.t = "bol" -> IF i = 1 THEN <<i>> ELSE <<>>
    [] n.t = "eol" -> IF i = Len(s) + 1 THEN <<i>> ELSE <<>>
    [] n.t = "behind" -> IF i > 1 /\ CharAt(s, i - 1) \in n.cs THEN <<i>> ELSE <<>>
    [] n.t = "seq" -> EndsSeq(n.parts, 1, s, i, ci)
    [] n.t = "alt" -> EndsAlt(n.alts, 1, s, i, ci)
    [] n.t = "rep" -> IF n.sub.t = "set" THEN EndsRun(n, s, i)
                      ELSE EndsRep(n, 0, s, i, ci)

EndsSeq(parts, k, s, i, ci) ==
  IF k > Len(parts) THEN <<i>>
  ELSE EndsSeqFrom(parts, k, s, Ends(parts[k], s, i, ci), 1, ci)

EndsSeqFrom(parts, k, s, ends, j, ci) ==
  IF j > Len(ends) THEN <<>>
  ELSE EndsSeq(parts, k + 1, s, ends[j], ci)
         \o EndsSeqFrom(parts, k, s, ends, j + 1, ci)

EndsAlt(alts, k, s, i, ci) ==
  IF k > Len(alts) THEN <<>>
  ELSE Ends(alts[k], s, i, ci) \o EndsAlt(alts, k + 1, s, i, ci)

\* A greedy quantifier tries one more iteration before stopping, a lazy one after.
Ordered(greedy, more, stop) == IF greedy THEN more \o stop ELSE stop \o more

\* c iterations done; an iteration that consumes nothing is not taken.
EndsRep(n, c, s, i, ci) ==
  Ordered(n.greedy,
          IF n.max # Inf /\ c >= n.max THEN <<>>
          ELSE EndsRepFrom(n, c + 1, s,
                           SelectSeq(Ends(n.sub, s, i, ci), LAMBDA e : e > i), 1, ci),
          IF c >= n.min THEN <<i>> ELSE <<>>)

EndsRepFrom(n, c, s, ends, j, ci) ==
  IF j > Len(ends) THEN <<>>
  ELSE EndsRep(n, c, s, ends[j], ci) \o EndsRepFrom(n, c, s, ends, j + 1, ci)

\* The first way to match parts[k..] from the end of path, as the positions
\* <<start, end of part 1, ..., end of the last part>>; <<>> when there is none.
\* The ends of part k are tried in order and the first that lets the rest match
\* is taken.
RECURSIVE FirstPath(_, _, _, _, _)

FirstOrNone(found) == IF Len(found) = 0 THEN <<>> ELSE found[1]

Continuations(parts, k, s, path, ends, ci) ==
  SelectSeq([j \in 1..Len(ends) |->
               FirstPath(parts, k + 1, s, Append(path, ends[j]), ci)],
            LAMBDA r : Len(r) > 0)

FirstPath(parts, k, s, path, ci) ==
  IF k > Len(parts) THEN path
  ELSE FirstOrNone(Continuations(parts, k, s, path,
                                 Ends(parts[k], s, path[Len(path)], ci), ci))

MatchAt(re, s, i) == FirstPath(re.parts, 1, s, <<i>>, re.ci)

MatchAtLeast(re, s, starts) ==
  IF starts = {} THEN <<>> ELSE MatchAt(re, s, Least(starts))

\* The leftmost match starting at position i or later.
Search(re, s, i) ==
  MatchAtLeast(re, s, {j \in i..(Len(s) + 1) : Len(MatchAt(re, s, j)) > 0})

MatchStart(p) == p[1]

MatchEnd(p) == p[Len(p)]

\* The text matched by part k of the pattern (a capture group that is part k).
PartText(s, p, k) == SubSeq(s, p[k], p[k + 1] - 1)

\* The successive non-overlapping matches of a /g pattern from position i.
RECURSIVE SearchAll(_, _, _)

ThenSearchAll(re, s, p) ==
  IF Len(p) = 0 THEN <<>>
  ELSE <<p>> \o SearchAll(re, s, IF MatchEnd(p) > MatchStart(p)
                                 THEN MatchEnd(p) ELSE MatchEnd(p) + 1)

SearchAll(re, s, i) == ThenSearchAll(re, s, Search(re, s, i))

MatchedTexts(s, ps) ==
  IF Len(ps) = 0 THEN Null
  ELSE Some([k \in 1..Len(ps) |-> SubSeq(s, MatchStart(ps[k]), MatchEnd(ps[k]) - 1)])

\* String.prototype.match with a /g pattern: null, or the matched substrings.
matchAll(s, re) == MatchedTexts(s, SearchAll(re, s, 1))

\* The concatenation of pieces[lo..hi] with sep between them.
RECURSIVE Join(_, _, _, _)
Join(pieces, lo, hi, sep) ==
  IF lo > hi THEN ""
  ELSE IF lo = hi THEN pieces[lo]
  ELSE LET mid == (lo + hi) \div 2
       IN Join(pieces, lo, mid, sep) \o sep \o Join(pieces, mid + 1, hi, sep)

\* The pieces of s between the matches ps.
Between(s, ps) ==
  [k \in 1..(Len(ps) + 1) |->
     SubSeq(s,
            IF k = 1 THEN 1 ELSE MatchEnd(ps[k - 1]),
            IF k = Len(ps) + 1 THEN Len(s) ELSE MatchStart(ps[k]) - 1)]

OneOrNone(p) == IF Len(p) = 0 THEN <<>> ELSE <<p>>

JoinBetween(s, ps, repl) == Join(Between(s, ps), 1, Len(ps) + 1, repl)

\* String.prototype.replace: every match of a /g pattern, else the first.
replace(s, re, repl) ==
  JoinBetween(s, IF re.g THEN SearchAll(re, s, 1) ELSE OneOrNone(Search(re, s, 1)), repl)

\* String.prototype.split with a separator pattern that never matches "".
split(s, re) == Between(s, SearchAll(re, s, 1))

Regex(parts, g, ci) == [parts |-> parts, g |-> g, ci |-> ci]

----------------------------------------------------------------------------
(* parser.ts                                                               *)

\* GITHUB_REGEX = /https?:\/\/(?:www\.)?github\.com\/[^\s)]+/gi
GITHUB_REGEX ==
  Regex(<<Lit("http"), Opt(Lit("s")), Lit("://"), Opt(Lit("www.")),
          Lit("github.com/"), Plus(NotCls(WhiteSpace \cup {")"}))>>, TRUE, TRUE)

\* EMAIL_REGEX = /[A-Z0-9._%+-]+@[A-Z0-9.-]+\.[A-Z]{2,}/gi
EMAIL_REGEX ==
  Regex(<<Plus(Cls(Letters \cup Digits \cup {".", "_", "%", "+", "-"})),
          Lit("@"),
          Plus(Cls(Letters \cup Digits \cup {".", "-"})),
          Lit("."),
          Rep(Cls(Letters), 2, Inf)>>, TRUE, TRUE)

\* [\s-]?
SepOpt == Opt(Cls(WhiteSpace \cup {"-"}))

\* PHONE_REGEX = /(?:\+?\d{1,3}[\s-]?)?(?:\(?\d{3}\)?[\s-]?)?\d{3}[\s-]?\d{4}/g
PHONE_REGEX ==
  Regex(<<Opt(Group(<<Opt(Lit("+")), Rep(Cls(Digits), 1, 3), SepOpt>>)),
          Opt(Group(<<Opt(Lit("(")), Rep(Cls(Digits), 3, 3), Opt(Lit(")")), SepOpt>>)),
          Rep(Cls(Digits), 3, 3), SepOpt, Rep(Cls(Digits), 4, 4)>>, TRUE, FALSE)

SUMMARY_KEYWORDS ==
  <<"experience", "developed", "engineer", "project", "designed", "built",
    "led", "collaborated", "improved", "delivered", "managed", "optimized",
    "implemented", "created", "modernized", "launched">>

\* /\r/g
CR_REGEX == Regex(<<Lit("\r")>>, TRUE, FALSE)

\* /\n{2,}/g
BLANK_RUN_REGEX == Regex(<<Rep(Cls({"\n"}), 2, Inf)>>, TRUE, FALSE)

\* cleanText with the two replacements in the other order.
cleanTextSwapped(txt) ==
  trim(replace(replace(txt, BLANK_RUN_REGEX, "\n\n"), CR_REGEX, "\n"))

cleanText(txt) ==
  trim(replace(replace(txt, CR_REGEX, "\n"), BLANK_RUN_REGEX, "\n\n"))

\* cleaned.split("\n"), line.split(" ")
splitOn(s, sep) == split(s, Regex(<<Lit(sep)>>, TRUE, FALSE))

HasDigit(s) == \E i \in 1..Len(s) : CharAt(s, i) \in Digits

NameMaxLen == 60

NameMaxWords == 5

\* The cases of the name test with the empty line let through.
NameCandidateOrEmpty(trimmed) ==
  /\ Len(trimmed) <= NameMaxLen
  /\ ~HasDigit(trimmed)
  /\ ~includes(toLowerCase(trimmed), "curriculum vitae")
  /\ Len(splitOn(trimmed, " ")) <= NameMaxWords

\* The test a line passes to be returned by extractName.
NameCandidate(trimmed) ==
  /\ Len(trimmed) > 0
  /\ Len(trimmed) <= NameMaxLen
  /\ ~HasDigit(trimmed)
  /\ ~includes(toLowerCase(trimmed), "curriculum vitae")
  /\ Len(splitOn(trimmed, " ")) <= NameMaxWords

RECURSIVE ExtractNameFrom(_, _)
ExtractNameFrom(lines, k) ==
  IF k > Len(lines) THEN Null
  ELSE LET trimmed == trim(lines[k])
       IN IF NameCandidate(trimmed) THEN Some(trimmed)
          ELSE ExtractNameFrom(lines, k + 1)

extractName(lines) == ExtractNameFrom(lines, 1)

\* JavaScript truthiness of a nullable string
Truthy(o) == ~IsNull(o) /\ Len(o[1]) > 0

HeadlineMaxLen == 80

\* lines.findIndex(...): the first index (from 1), or 0 for -1
findIndexOfName(lines, name) ==
  LET hits == {k \in 1..Len(lines) : toLowerCase(trim(lines[k])) = toLowerCase(name)}
  IN IF hits = {} THEN 0 ELSE CHOOSE k \in hits : \A j \in hits : k <= j

\* extractHeadline reading the line of the name instead of the one after it.
extractHeadlineSameLine(lines, name) ==
  IF ~Truthy(name) THEN Null
  ELSE LET nameIndex == findIndexOfName(lines, name[1])
       IN IF nameIndex >= 1 /\ nameIndex + 1 <= Len(lines)
          THEN LET nextLine == trim(lines[nameIndex])
               IN IF Len(nextLine) > 0 /\ Len(nextLine) <= HeadlineMaxLen
                  THEN Some(nextLine) ELSE Null
          ELSE Null

\* extractHeadline with an empty line after the name accepted as the headline.
extractHeadlineEmptyToo(lines, name) ==
  IF ~Truthy(name) THEN Null
  ELSE LET nameIndex == findIndexOfName(lines, name[1])
       IN IF nameIndex >= 1 /\ nameIndex + 1 <= Len(lines)
          THEN LET nextLine == trim(lines[nameIndex + 1])
               IN IF Len(nextLine) <= HeadlineMaxLen
                  THEN Some(nextLine) ELSE Null
          ELSE Null

extractHeadline(lines, name) ==
  IF ~Truthy(name) THEN Null
  ELSE LET nameIndex == findIndexOfName(lines, name[1])
       IN IF nameIndex >= 1 /\ nameIndex + 1 <= Len(lines)
          THEN LET nextLine == trim(lines[nameIndex + 1])
               IN IF Len(nextLine) > 0 /\ Len(nextLine) <= HeadlineMaxLen
                  THEN Some(nextLine) ELSE Null
          ELSE Null

\* The skills pattern with the end of the text accepted as the end of a section.
SKILLS_SECTION_TO_END_REGEX ==
  Regex(<<Alt(<<Lit("skills"), Lit("technical skills"), Lit("toolbox"), Lit("technologies")>>),
          Star(Cls(WhiteSpace)),
          Lit(":"),
          Opt(Lit(" ")),
          Lazy(NotCls({}), 1, Inf),
          Alt(<<Lit("\n\n"), Lit("experience"), Lit("projects"), Lit("education"), Eol>>)>>,
        FALSE, TRUE)

\* /(skills|technical skills|toolbox|technologies)\s*: ?([\s\S]+?)(?:\n\n|experience|projects|education)/i
SKILLS_SECTION_REGEX ==
  Regex(<<Alt(<<Lit("skills"), Lit("technical skills"), Lit("toolbox"), Lit("technologies")>>),
          Star(Cls(WhiteSpace)),
          Lit(":"),
          Opt(Lit(" ")),
          Lazy(NotCls({}), 1, Inf),
          Alt(<<Lit("\n\n"), Lit("experience"), Lit("projects"), Lit("education")>>)>>,
        FALSE, TRUE)

\* /[,•\n]/u on ASCII text
SKILL_SPLIT_REGEX == Regex(<<Cls({",", "\n"})>>, TRUE, FALSE)

SkillsCap == 15

MapTrim(xs) == [k \in 1..Len(xs) |-> trim(xs[k])]

\* SkillTokens with the tokens made distinct.
SkillTokensDistinct(sectionBody) ==
  Unique(SelectSeq(MapTrim(split(sectionBody, SKILL_SPLIT_REGEX)), LAMBDA skill : Len(skill) > 1))

SkillTokens(sectionBody) ==
  SelectSeq(MapTrim(split(sectionBody, SKILL_SPLIT_REGEX)), LAMBDA skill : Len(skill) > 1)

SkillsOfUncapped(txt, skillsSectionMatch) ==
  IF Len(skillsSectionMatch) = 0 THEN <<>>
  ELSE SkillTokens(PartText(txt, skillsSectionMatch, 5))

\* extractSkills without the cap on the number of entries.
extractSkillsUncapped(txt) ==
  SkillsOfUncapped(txt, Search(SKILLS_SECTION_REGEX, txt, 1))

SkillsOf(txt, skillsSectionMatch) ==
  IF Len(skillsSectionMatch) = 0 THEN <<>>
  ELSE slice0(SkillTokens(PartText(txt, skillsSectionMatch, 5)), SkillsCap)

extractSkills(txt) == SkillsOf(txt, Search(SKILLS_SECTION_REGEX, txt, 1))

\* /\n+/g
NEWLINES_REGEX == Regex(<<Plus(Cls({"\n"}))>>, TRUE, FALSE)

\* /(?<=[.!?])\s+/
SENTENCE_SPLIT_REGEX ==
  Regex(<<Behind({".", "!", "?"}), Plus(Cls(WhiteSpace))>>, TRUE, FALSE)

SentenceMaxLen == 300

\* tokenizeSentences without the upper limit on the length of a sentence.
tokenizeSentencesAnyLength(txt) ==
  Unique(SelectSeq(MapTrim(split(replace(txt, NEWLINES_REGEX, " "), SENTENCE_SPLIT_REGEX)),
                   LAMBDA sentence : Len(sentence) > 0))

tokenizeSentences(txt) ==
  Unique(SelectSeq(MapTrim(split(replace(txt, NEWLINES_REGEX, " "), SENTENCE_SPLIT_REGEX)),
                   LAMBDA sentence : Len(sentence) > 0 /\ Len(sentence) <= SentenceMaxLen))

RECURSIVE KeywordScore(_, _)
KeywordScore(lower, k) ==
  IF k > Len(SUMMARY_KEYWORDS) THEN 0
  ELSE (IF includes(lower, SUMMARY_KEYWORDS[k]) THEN 20 ELSE 0)
         + KeywordScore(lower, k + 1)

\* Ten times the score of scoreSentence, so that length / 10 stays an integer.
scoreSentence(sentence) ==
  KeywordScore(toLowerCase(sentence), 1)
    + (IF Len(sentence) < 100 THEN Len(sentence) ELSE 100)
    + (IF includes(sentence, "*") \/ includes(sentence, "-") THEN 10 ELSE 0)
    + (IF includes(sentence, "%") \/ HasDigit(sentence) THEN 10 ELSE 0)

\* SortByScore with an item placed ahead of the items of equal score.
RECURSIVE SortByScoreUnstable(_)
SortByScoreUnstable(items) ==
  IF Len(items) = 0 THEN <<>>
  ELSE LET init == SortByScoreUnstable(SubSeq(items, 1, Len(items) - 1))
           x == items[Len(items)]
           ahead == Cardinality({k \in 1..Len(init) : init[k].score > x.score})
       IN SubSeq(init, 1, ahead) \o <<x>> \o SubSeq(init, ahead + 1, Len(init))

\* Array.prototype.sort((a, b) => b.score - a.score): stable, descending.
RECURSIVE SortByScore(_)
SortByScore(items) ==
  IF Len(items) = 0 THEN <<>>
  ELSE LET init == SortByScore(SubSeq(items, 1, Len(items) - 1))
           x == items[Len(items)]
           ahead == Cardinality({k \in 1..Len(init) : init[k].score >= x.score})
       IN SubSeq(init, 1, ahead) \o <<x>> \o SubSeq(init, ahead + 1, Len(init))

SummaryCap == 4

SummaryFallback == 3

Scored(sentences) ==
  [k \in 1..Len(sentences) |->
     [sentence |-> sentences[k], score |-> scoreSentence(sentences[k])]]

TopSentences(sentences, top) ==
  IF Len(top) = 0 THEN slice0(sentences, SummaryFallback)
  ELSE [k \in 1..Len(top) |-> top[k].sentence]

buildSummary(sentences) ==
  IF Len(sentences) = 0 THEN <<>>
  ELSE TopSentences(sentences, slice0(SortByScore(Scored(sentences)), SummaryCap))

\* /\s+/g
SPACES_REGEX == Regex(<<Plus(Cls(WhiteSpace))>>, TRUE, FALSE)

\* /\D/g
NON_DIGIT_REGEX == Regex(<<NotCls(Digits)>>, TRUE, FALSE)

\* /[\s,.;)]*$/
TRAILING_REGEX ==
  Regex(<<Star(Cls(WhiteSpace \cup {",", ".", ";", ")"})), Eol>>, FALSE, FALSE)

\* /https?:\/\//
SCHEME_REGEX == Regex(<<Lit("http"), Opt(Lit("s")), Lit("://")>>, FALSE, FALSE)

\* /www\./
WWW_REGEX == Regex(<<Lit("www.")>>, FALSE, FALSE)

\* /^github\.com\/([^\/\s]+)/i
USERNAME_REGEX ==
  Regex(<<Bol, Lit("github.com/"), Plus(NotCls(WhiteSpace \cup {"/"}))>>, FALSE, TRUE)

PhoneMinDigits == 10

\* The outcome of evaluating an expression: a value, or a thrown TypeError.
Normal(v) == [threw |-> FALSE, v |-> v]

TypeError == [threw |-> TRUE, v |-> <<>>]

\* match(...) ?? []
OrEmpty(m) == IF IsNull(m) THEN <<>> ELSE m[1]

LowerAll(xs) == [k \in 1..Len(xs) |-> toLowerCase(xs[k])]

\* Array.from(new Set(cleaned.match(EMAIL_REGEX) ?? [])).map(toLowerCase)
extractEmails(cleaned) == LowerAll(Unique(OrEmpty(matchAll(cleaned, EMAIL_REGEX))))

normalizePhone(phone) == trim(replace(phone, SPACES_REGEX, " "))

digitsOf(phone) == replace(phone, NON_DIGIT_REGEX, "")

NormalizeAll(found) == [k \in 1..Len(found) |-> normalizePhone(found[k])]

PhoneList(found) ==
  SelectSeq(NormalizeAll(found), LAMBDA phone : Len(digitsOf(phone)) >= PhoneMinDigits)

\* The phones without the optional chaining on the result of match.
PhonesOfUnguarded(m) == IF IsNull(m) THEN TypeError ELSE Normal(PhoneList(m[1]))

\* The phones without the digit-count filter.
PhonesOfUnfiltered(m) == IF IsNull(m) THEN Normal(<<>>) ELSE Normal(NormalizeAll(m[1]))

\* m?.map(...).filter(...) ?? []
PhonesOf(m) == IF IsNull(m) THEN Normal(<<>>) ELSE Normal(PhoneList(m[1]))

extractPhones(cleaned) == PhonesOf(matchAll(cleaned, PHONE_REGEX))

FirstOrNull(githubMatches) ==
  IF Len(githubMatches) > 0 THEN Some(githubMatches[1]) ELSE Null

StripTrailing(firstMatch) ==
  IF Truthy(firstMatch) THEN Some(replace(firstMatch[1], TRAILING_REGEX, "")) ELSE Null

rawGithubUrlOf(cleaned) ==
  StripTrailing(FirstOrNull(OrEmpty(matchAll(cleaned, GITHUB_REGEX))))

\* match?.[1] ?? null
CaptureOrNull(stripped, match) ==
  IF Len(match) = 0 THEN Null ELSE Some(PartText(stripped, match, 3))

UsernameIn(stripped) == CaptureOrNull(stripped, Search(USERNAME_REGEX, stripped, 1))

githubUsernameOf(rawGithubUrl) ==
  IF Truthy(rawGithubUrl)
  THEN UsernameIn(replace(replace(rawGithubUrl[1], SCHEME_REGEX, ""), WWW_REGEX, ""))
  ELSE Null

\* The URL left null when no username was extracted.
githubUrlNoFallback(githubUsername, rawGithubUrl) ==
  IF ~IsNull(githubUsername) THEN Some("https://github.com/" \o githubUsername[1])
  ELSE Null

\* The URL kept as matched even when a username was extracted.
githubUrlRaw(githubUsername, rawGithubUrl) == rawGithubUrl

githubUrlOf(githubUsername, rawGithubUrl) ==
  IF ~IsNull(githubUsername) THEN Some("https://github.com/" \o githubUsername[1])
  ELSE rawGithubUrl

Assemble(cleaned, name, headline, githubUrl, githubUsername, emails, phones, skills, summary) ==
  [threw |-> phones.threw,
   v |-> [name |-> name,
          headline |-> headline,
          githubUrl |-> githubUrl,
          githubUsername |-> githubUsername,
          emails |-> emails,
          phones |-> phones.v,
          skills |-> skills,
          summary |-> summary,
          rawText |-> cleaned]]

ParseLinked(cleaned, name, headline, rawGithubUrl, githubUsername) ==
  Assemble(cleaned, name, headline,
           githubUrlOf(githubUsername, rawGithubUrl), githubUsername,
           extractEmails(cleaned), extractPhones(cleaned),
           extractSkills(cleaned), buildSummary(tokenizeSentences(cleaned)))

ParseNamed(cleaned, lines, name, rawGithubUrl) ==
  ParseLinked(cleaned, name, extractHeadline(lines, name),
              rawGithubUrl, githubUsernameOf(rawGithubUrl))

ParseLines(cleaned, lines) ==
  ParseNamed(cleaned, lines, extractName(lines), rawGithubUrlOf(cleaned))

ParseCleaned(cleaned) == ParseLines(cleaned, splitOn(cleaned, "\n"))

parseResumeText(txt) == ParseCleaned(cleanText(txt))

----------------------------------------------------------------------------
(* The three /g patterns are module-level RegExp objects, shared by every   *)
(* call; each has a lastIndex that exec reads and writes.                   *)

\* RegExpBuiltinExec on a /g pattern: the first match at or after lastIndex,
\* which moves to the end of the match, or back to 0 when there is none.
ExecResult(p) == [p |-> p, lastIndex |-> IF Len(p) = 0 THEN 0 ELSE MatchEnd(p) - 1]

exec(re, s, from) == ExecResult(IF from > Len(s) THEN <<>> ELSE Search(re, s, from + 1))

FoundOrNull(acc) == IF Len(acc) = 0 THEN Null ELSE Some(acc)

OnceResult(s, r) ==
  [found |-> FoundOrNull(IF Len(r.p) = 0 THEN <<>>
                         ELSE <<SubSeq(s, MatchStart(r.p), MatchEnd(r.p) - 1)>>),
   lastIndex |-> r.lastIndex]

\* One exec on the shared pattern from where the last call left it.
execOnce(re, s, from) == OnceResult(s, exec(re, s, from))

RECURSIVE MatchLoop(_, _, _, _)

MatchStep(re, s, acc, r) ==
  IF Len(r.p) = 0 THEN [found |-> FoundOrNull(acc), lastIndex |-> r.lastIndex]
  ELSE MatchLoop(re, s,
                 IF MatchEnd(r.p) = MatchStart(r.p) THEN r.lastIndex + 1 ELSE r.lastIndex,
                 Append(acc, SubSeq(s, MatchStart(r.p), MatchEnd(r.p) - 1)))

MatchLoop(re, s, from, acc) == MatchStep(re, s, acc, exec(re, s, from))

\* String.prototype.match with a /g pattern whose lastIndex is `from`: match
\* sets lastIndex to 0 and calls exec until it finds nothing.
matchShared(re, s, from) == MatchLoop(re, s, 0, <<>>)

AssembleLinked(cleaned, name, headline, rawGithubUrl, githubUsername, emails, phones) ==
  Assemble(cleaned, name, headline,
           githubUrlOf(githubUsername, rawGithubUrl), githubUsername,
           emails, phones,
           extractSkills(cleaned), buildSummary(tokenizeSentences(cleaned)))

AssembleNamed(cleaned, lines, name, rawGithubUrl, emails, phones) ==
  AssembleLinked(cleaned, name, extractHeadline(lines, name),
                 rawGithubUrl, githubUsernameOf(rawGithubUrl), emails, phones)

ParseMatched(cleaned, lines, emailMatch, phoneMatch, githubMatch) ==
  [r |-> AssembleNamed(cleaned, lines, extractName(lines),
                       StripTrailing(FirstOrNull(OrEmpty(githubMatch.found))),
                       LowerAll(Unique(OrEmpty(emailMatch.found))),
                       PhonesOf(phoneMatch.found)),
   lastIndex |-> [github |-> githubMatch.lastIndex,
                  email |-> emailMatch.lastIndex,
                  phone |-> phoneMatch.lastIndex]]

ParseSharedCleaned(cleaned, last) ==
  ParseMatched(cleaned, splitOn(cleaned, "\n"),
               matchShared(EMAIL_REGEX, cleaned, last.email),
               matchShared(PHONE_REGEX, cleaned, last.phone),
               matchShared(GITHUB_REGEX, cleaned, last.github))

\* parseResumeText(txt) with the patterns in the state `last`: the result,
\* and the state it leaves the patterns in.
parseShared(txt, last) == ParseSharedCleaned(cleanText(txt), last)

----------------------------------------------------------------------------
(* The upload route (POST /api/parse)                                       *)

\* A thrown Error with its message.
Error(message) == [threw |-> TRUE, v |-> message]

endsWith(s, suffix) ==
  Len(s) >= Len(suffix) /\ SubSeq(s, Len(s) - Len(suffix) + 1, Len(s)) = suffix

startsWith(s, prefix) ==
  Len(s) >= Len(prefix) /\ SubSeq(s, 1, Len(prefix)) = prefix

LastOf(xs) == xs[Len(xs)]

\* file.name.split(".").pop()?.toLowerCase()
extensionOf(name) == toLowerCase(LastOf(splitOn(name, ".")))

DocMessage ==
  "DOC and DOCX formats are not supported yet. Please export your resume as PDF or plain text and try again."

UnsupportedMessage == "Unsupported file type. Please upload a PDF or plain text resume."

\* The message of the source, whose two grave accents around the word resume
\* a TLA+ string cannot hold.
RequiredMessage == "Resume file is required under the resume field."

NoTextMessage == "We could not read any text from the provided resume."

\* The messages of the errors thrown outside the route's own code.
PdfErrorMessage == "Invalid PDF structure"

\* The message of the TypeError request.formData() throws: one for a
\* multipart body that does not parse, one for a Content-Type that is not
\* one of a form.
FormDataMessage(body) ==
  IF body = "malformed" THEN "Failed to parse body as FormData."
  ELSE "Content-Type was not one of \"multipart/form-data\" or \"application/x-www-form-urlencoded\"."

TypeErrorMessage == "Cannot read properties of null (reading 'map')"

\* pdf-parse returns the text of the document or throws.
extractPdfText(file) ==
  IF file.pdfFails THEN Error(PdfErrorMessage) ELSE Normal(file.content)

\* if (file.type === "application/pdf" || file.name.endsWith(".pdf"))
isPdf(file) == file.type = "application/pdf" \/ endsWith(file.name, ".pdf")

\* extractTextFromFile from the end of its await to its return or throw; for
\* a PDF it returns what extractPdfText returns.
extractTextFromFile(file, pdfText) ==
  IF isPdf(file)
  THEN pdfText
  ELSE IF startsWith(file.type, "text/") \/ endsWith(file.name, ".txt")
  THEN Normal(file.content)
  ELSE IF extensionOf(file.name) \in {"doc", "docx"}
  THEN Error(DocMessage)
  ELSE Error(UnsupportedMessage)

\* NextResponse.json({error}, {status}) and NextResponse.json({data})
JsonError(status, message) == [status |-> status, error |-> Some(message), data |-> Null]

JsonData(data) == [status |-> 200, error |-> Null, data |-> Some(data)]

\* What a run of the route leaves: its response and its calls of parseResumeText.
Handled(resp, n) == [response |-> resp, parseCalls |-> n]

AfterParse(parsedResume) ==
  Handled(IF parsedResume.threw THEN JsonError(500, TypeErrorMessage)
          ELSE JsonData(parsedResume.v), 1)

\* The test that lets a text through to parseResumeText, without the test
\* for an empty text.
ReachesParseUnchecked(extracted) == ~extracted.threw

\* No throw up to line 799 and text.trim() is not empty.
ReachesParse(extracted) == ~extracted.threw /\ Len(trim(extracted.v)) > 0

\* The route from the end of await extractTextFromFile to its response;
\* parsedResume is what parseResumeText(text) gave when it was called.
AfterExtract(extracted, parsedResume) ==
  IF extracted.threw THEN Handled(JsonError(500, extracted.v), 0)
  ELSE IF ~ReachesParse(extracted) THEN Handled(JsonError(400, NoTextMessage), 0)
  ELSE AfterParse(parsedResume)

\* The route from the end of await request.formData() to its response, when
\* it does not go on to extractTextFromFile.
AfterFormData(req) ==
  IF req.body # "form" THEN Handled(JsonError(500, FormDataMessage(req.body)), 0)
  ELSE Handled(JsonError(400, RequiredMessage), 0)

----------------------------------------------------------------------------
(* The GitHub route (POST /api/github)                                      *)

DEFAULT_REPO_LIMIT == 6

MAX_ACTIVITY_ITEMS == 8

RepoLimitMax == 10

ReadmeExcerptLen == 500

UsernameRequiredMessage == "A GitHub username is required."

UsernameEmptyMessage == "GitHub username cannot be empty."

\* The message of the error fetch throws when the request cannot be made.
FetchFailedMessage == "fetch failed"

\* What the GitHub API does with a request: it answers with a value, answers
\* with an error status (the body may carry a message), or cannot be reached.
Answer(value) == [kind |-> "ok", status |-> "200", message |-> Null, value |-> value]

ErrorStatus(status, message) ==
  [kind |-> "status", status |-> status, message |-> message, value |-> <<>>]

Unreachable == [kind |-> "network", status |-> "", message |-> Null, value |-> <<>>]

NoOutcome == [kind |-> "none", status |-> "", message |-> Null, value |-> <<>>]

fetchGithubJson(o) ==
  IF o.kind = "network" THEN Error(FetchFailedMessage)
  ELSE IF o.kind = "status"
  THEN Error(IF ~IsNull(o.message) THEN o.message[1]
             ELSE "GitHub request failed with status " \o o.status)
  ELSE Normal(o.value)

\* fetchReadmeExcerpt without its try and catch.
fetchReadmeExcerptUncaught(o) ==
  IF o.kind = "network" THEN Error(FetchFailedMessage)
  ELSE IF o.kind = "status" THEN Normal(Null)
  ELSE Normal(Some(slice0(o.value, ReadmeExcerptLen)))

fetchReadmeExcerpt(o) ==
  IF o.kind = "network" THEN Normal(Null)
  ELSE IF o.kind = "status" THEN Normal(Null)
  ELSE Normal(Some(slice0(o.value, ReadmeExcerptLen)))

\* typeof body.repoLimit === "number" && body.repoLimit > 0 ? Math.min(..., 10) : 6
repoLimitOf(body) ==
  IF ~IsNull(body.repoLimit) /\ body.repoLimit[1] > 0
  THEN (IF body.repoLimit[1] < RepoLimitMax THEN body.repoLimit[1] ELSE RepoLimitMax)
  ELSE DEFAULT_REPO_LIMIT

\* [...repos].sort((a, b) => b.stargazers_count - a.stargazers_count)
RECURSIVE SortByStars(_)
SortByStars(repos) ==
  IF Len(repos) = 0 THEN <<>>
  ELSE LET init == SortByStars(SubSeq(repos, 1, Len(repos) - 1))
           x == repos[Len(repos)]
           ahead == Cardinality({k \in 1..Len(init) :
                                   init[k].stargazers_count >= x.stargazers_count})
       IN SubSeq(init, 1, ahead) \o <<x>> \o SubSeq(init, ahead + 1, Len(init))

sortedReposOf(repos, repoLimit) == slice0(SortByStars(repos), repoLimit)

WithReadme(repo, readmeExcerpt) ==
  [name |-> repo.name,
   stargazers_count |-> repo.stargazers_count,
   topics |-> IF IsNull(repo.topics) THEN <<>> ELSE repo.topics[1],
   readmeExcerpt |-> readmeExcerpt]

RECURSIVE totalStarsOf(_)
totalStarsOf(repos) ==
  IF Len(repos) = 0 THEN 0
  ELSE totalStarsOf(SubSeq(repos, 1, Len(repos) - 1)) + repos[Len(repos)].stargazers_count

\* The fields of mapEventToSummary that every event type sets the same way.
mapEventToSummary(event) == [id |-> event.id, type |-> event.type, repoName |-> event.repo]

recentActivityOf(events) ==
  slice0(SelectSeq([k \in 1..Len(events) |-> mapEventToSummary(events[k])],
                   LAMBDA item : Len(item.repoName) > 0),
         MAX_ACTIVITY_ITEMS)

payloadOf(profile, repos, reposWithReadme, events) ==
  [login |-> profile.login,
   followers |-> profile.followers,
   repos |-> reposWithReadme,
   aggregates |-> [totalStars |-> totalStarsOf(repos), repositoryCount |-> Len(repos)],
   spotlight |-> IF Len(reposWithReadme) > 0 THEN Some(reposWithReadme[1]) ELSE Null,
   recentActivity |-> recentActivityOf(events)]

\* What the route keeps before any request is made.
NoGithubData ==
  [username |-> "", repoLimit |-> 0, profile |-> <<>>, repos |-> <<>>,
   readmes |-> <<>>, reposWithReadme |-> <<>>]

NoSeen ==
  [profile |-> NoOutcome, repos |-> NoOutcome, readmes |-> <<>>, events |-> NoOutcome]

----------------------------------------------------------------------------
(* The caller: one call of parseResumeText on a text, and a second call on *)
(* the rawText the first one returned.                                     *)

NoResult ==
  [name |-> Null, headline |-> Null, githubUrl |-> Null, githubUsername |-> Null,
   emails |-> <<>>, phones |-> <<>>, skills |-> <<>>, summary |-> <<>>, rawText |-> ""]

\* The patterns as the module creates them.
NoLastIndex == [github |-> 0, email |-> 0, phone |-> 0]

SharedIdle == lastIndex = NoLastIndex /\ calls = <<>>

\* A request that carries no file.
NoFile(body, resume) ==
  [body |-> body, resume |-> resume, type |-> "", name |-> "", content |-> "",
   pdfFails |-> FALSE]

NoText == Normal("")

UploadIdle ==
  /\ request = NoFile("none", "absent") /\ response = Null /\ parseCalls = 0
  /\ uploadPc = "idle" /\ uploadText = NoText

\* request.json().catch(() => null) gave null.
NoBody == [json |-> FALSE, username |-> Null, repoLimit |-> Null]

GithubIdle ==
  /\ ghBody = NoBody /\ ghPc = "idle" /\ ghSeen = NoSeen
  /\ ghData = NoGithubData /\ ghResponse = Null

\* No call of scoreSentence on its own.
ScoreIdle == scoreArg = "" /\ scoreValue = Null

\* The page before it is mounted: the initial useState values (page.tsx:68-74),
\* no effect run, no request.
NoPage ==
  [isLoading |-> FALSE, error |-> Null, parsedResume |-> Null,
   githubProfile |-> Null, githubError |-> Null, githubLoading |-> FALSE]

NoEffect == [deps |-> Null, fetch |-> 0]

\* The request to /api/parse: the await handleFileUpload is suspended at
\* ("none" when there is no request), and the response once it has arrived.
NoUpload == [at |-> "none", response |-> Null, uploads |-> 0, resumes |-> 0]

PageIdle ==
  /\ page = NoPage /\ effect = NoEffect /\ githubFetches = <<>> /\ uploadFetch = NoUpload

InitWith(inputs) ==
  /\ text \in inputs
  /\ phase = "ready"
  /\ outcome = "none"
  /\ result = NoResult
  /\ fed = FALSE
  /\ SharedIdle
  /\ UploadIdle
  /\ GithubIdle
  /\ ScoreIdle /\ PageIdle

\* parseResumeText(text) runs to its return or to a throw.
Returned(r) ==
  /\ outcome' = IF r.threw THEN "threw" ELSE "returned"
  /\ result' = IF r.threw THEN NoResult ELSE r.v

Parse ==
  /\ phase = "ready"
  /\ Returned(parseResumeText(text))
  /\ phase' = "done"
  /\ UNCHANGED <<text, fed>>
  /\ UNCHANGED <<sharedVars, uploadVars, githubVars, scoreVars, pageVars>>

\* The caller passes the rawText of the result to parseResumeText again.
Reparse ==
  /\ phase = "done"
  /\ outcome = "returned"
  /\ ~fed
  /\ text' = result.rawText
  /\ fed' = TRUE
  /\ phase' = "ready"
  /\ outcome' = "none"
  /\ UNCHANGED result
  /\ UNCHANGED <<sharedVars, uploadVars, githubVars, scoreVars, pageVars>>

Next == Parse \/ Reparse

\* A sequence of calls of parseResumeText, each on any text, all on the same
\* three patterns.
MaxCalls == 3

Recorded(t, c) ==
  /\ calls' = Append(calls, [input |-> t, threw |-> c.r.threw, result |-> c.r.v])
  /\ lastIndex' = c.lastIndex

Call(t) ==
  /\ Len(calls) < MaxCalls
  /\ Recorded(t, parseShared(t, lastIndex))
  /\ UNCHANGED <<parserVars, uploadVars, githubVars, scoreVars, pageVars>>

ParserIdle ==
  /\ text = "" /\ phase = "idle" /\ outcome = "none" /\ result = NoResult /\ fed = FALSE

\* scoreSentence(scoreArg) runs to its return.
ScoreSentence ==
  /\ IsNull(scoreValue)
  /\ Len(scoreArg) > 0
  /\ scoreValue' = Some(scoreSentence(scoreArg))
  /\ UNCHANGED <<scoreArg, parserVars, sharedVars, uploadVars, githubVars, pageVars>>

\* The page component (page.tsx): an upload, the effect on githubUsername and
\* the analytics requests it starts.  The state the steps work on is the
\* record [page, effect, fetches, resumes].
MAX_FILE_SIZE == 5 * 1024 * 1024

TooLargeMessage == "File is too large. Please upload a file under 5 MB."

ParseFailedMessage == "Unable to parse resume."

AnalyticsFailedMessage == "Unable to fetch GitHub analytics."

\* const githubUsername = parsedResume?.githubUsername ?? null
currentGithubUsername(p) ==
  IF IsNull(p.parsedResume) THEN Null ELSE p.parsedResume[1].githubUsername

\* One run of fetchGithubInsights: the username and the isCancelled of its
\* closure, how far it is ("pending" at await fetch, "arrived" at await
\* response.json() with the response it got, then "applied" or "dropped"
\* according to isCancelled), and, for the record, the number of
\* resumes parsed when it started and when its response was applied, and
\* whether githubUsername changed while it was pending.
NewFetch(username, resumes) ==
  [username |-> username, isCancelled |-> FALSE, status |-> "pending", response |-> Null,
   resume |-> resumes, appliedResume |-> 0, stale |-> FALSE]

\* The pending requests after githubUsername went from before to after.
Staled(fetches, before, after) ==
  IF before = after THEN fetches
  ELSE [k \in 1..Len(fetches) |->
          IF fetches[k].status \in {"pending", "arrived"}
          THEN [fetches[k] EXCEPT !.stale = TRUE]
          ELSE fetches[k]]

\* return () => { isCancelled = true } of the last run of the effect.
Cleanup(fetches, e) ==
  IF e.fetch = 0 THEN fetches ELSE [fetches EXCEPT ![e.fetch].isCancelled = TRUE]

\* The effect runs: the clean-up of its last run, then its body.
useEffect(st) ==
  IF ~Truthy(currentGithubUsername(st.page))
  THEN [st EXCEPT !.page = [@ EXCEPT !.githubProfile = Null, !.githubError = Null,
                                     !.githubLoading = FALSE],
                  !.effect = [deps |-> Some(currentGithubUsername(st.page)), fetch |-> 0],
                  !.fetches = Cleanup(@, st.effect)]
  ELSE [st EXCEPT !.page = [@ EXCEPT !.githubLoading = TRUE, !.githubError = Null],
                  !.effect = [deps |-> Some(currentGithubUsername(st.page)),
                              fetch |-> Len(st.fetches) + 1],
                  !.fetches = Append(Cleanup(@, st.effect),
                                     NewFetch(currentGithubUsername(st.page)[1], st.resumes))]

\* The effect is due when githubUsername is not what it last ran with.
EffectDue(p, e) == e.deps # Some(currentGithubUsername(p))

\* React runs the effects that are due before it renders an update, and the
\* effects of an update made in an input event at the end of that event.
Flushed(st) == IF EffectDue(st.page, st.effect) THEN useEffect(st) ELSE st

\* handleFileUpload up to its await, on a file that is not too large.
UploadStarted(st) ==
  [st EXCEPT !.page = [@ EXCEPT !.error = Null, !.isLoading = TRUE, !.parsedResume = Null],
             !.fetches = Staled(@, currentGithubUsername(st.page), Null)]

\* handleFileUpload after its awaits.
UploadSettled(p, o) ==
  IF o.ok
  THEN [p EXCEPT !.parsedResume = Some([githubUsername |-> o.githubUsername]),
                 !.githubProfile = Null, !.githubError = Null, !.isLoading = FALSE]
  ELSE [p EXCEPT !.error = Some(IF IsNull(o.message) THEN ParseFailedMessage ELSE o.message[1]),
                 !.isLoading = FALSE]

\* fetchGithubInsights with its response applied whether or not the run was cancelled.
AppliesAlways(fetch) == TRUE

\* if (!isCancelled)
Applies(fetch) == ~fetch.isCancelled

\* fetchGithubInsights after its awaits.
InsightsSettled(p, fetch, o) ==
  IF ~Applies(fetch) THEN p
  ELSE IF o.ok
  THEN [p EXCEPT !.githubProfile = Some([login |-> fetch.username]), !.githubLoading = FALSE]
  ELSE [p EXCEPT !.githubProfile = Null,
                 !.githubError = Some(IF IsNull(o.message) THEN AnalyticsFailedMessage
                                      ELSE o.message[1]),
                 !.githubLoading = FALSE]

FetchSettled(fetch, resumes) ==
  [fetch EXCEPT !.status = IF Applies(fetch) THEN "applied" ELSE "dropped",
                !.appliedResume = resumes]

PageState == [page |-> page, effect |-> effect, fetches |-> githubFetches,
              resumes |-> uploadFetch.resumes]

Shown(st) ==
  /\ page' = st.page
  /\ effect' = st.effect
  /\ githubFetches' = st.fetches

MaxUploads == 3

\* The file of the change event: none, or a file of some size.
Files == {Null, Some(MAX_FILE_SIZE), Some(MAX_FILE_SIZE + 1)}

\* The input is disabled while isLoading. Each update handleFileUpload makes
\* in the change event (setError of a file that is too large as well) is
\* rendered at the end of the event, with the effect if it is due.
HandleFileUpload ==
  /\ ~page.isLoading
  /\ uploadFetch.uploads < MaxUploads
  /\ \E file \in Files :
       IF IsNull(file) THEN UNCHANGED pageVars
       ELSE IF file[1] > MAX_FILE_SIZE
       THEN /\ Shown(Flushed([Flushed(PageState) EXCEPT
                                !.page.error = Some(TooLargeMessage)]))
            /\ uploadFetch' = [uploadFetch EXCEPT !.uploads = @ + 1]
       ELSE /\ Shown(Flushed(UploadStarted(Flushed(PageState))))
            /\ uploadFetch' = [uploadFetch EXCEPT !.uploads = @ + 1, !.at = "fetch"]
  /\ UNCHANGED <<parserVars, sharedVars, uploadVars, githubVars, scoreVars>>

\* What await fetch("/api/parse") gives: a response with a resume, with or
\* without a username, a response that is not ok, with or without a message,
\* or a throw.
ParseOutcomes ==
  {[arrives |-> TRUE, ok |-> TRUE, githubUsername |-> u, message |-> Null] :
     u \in {Null, Some("jane"), Some("joe")}}
    \cup {[arrives |-> TRUE, ok |-> FALSE, githubUsername |-> Null, message |-> m] :
            m \in {Null, Some("Unsupported file type.")}}
    \cup {[arrives |-> FALSE, ok |-> FALSE, githubUsername |-> Null, message |-> Some("fetch failed")]}

\* handleFileUpload from the end of its last await to its end.
ParseSettled(o) ==
  /\ page' = UploadSettled(page, o)
  /\ githubFetches' = Staled(githubFetches, currentGithubUsername(page),
                             currentGithubUsername(UploadSettled(page, o)))
  /\ uploadFetch' = [uploadFetch EXCEPT !.at = "none", !.response = Null,
                                        !.resumes = IF o.ok THEN @ + 1 ELSE @]

\* await fetch("/api/parse") ends: with a response, whose body is then
\* awaited, or with a throw, which the catch handles.
ParseArrived ==
  /\ uploadFetch.at = "fetch"
  /\ \E o \in ParseOutcomes :
       IF o.arrives
       THEN /\ uploadFetch' = [uploadFetch EXCEPT !.at = "json", !.response = Some(o)]
            /\ UNCHANGED <<page, githubFetches>>
       ELSE ParseSettled(o)
  /\ UNCHANGED effect
  /\ UNCHANGED <<parserVars, sharedVars, uploadVars, githubVars, scoreVars>>

\* await response.json() ends.
ParseResponded ==
  /\ uploadFetch.at = "json"
  /\ ParseSettled(uploadFetch.response[1])
  /\ UNCHANGED effect
  /\ UNCHANGED <<parserVars, sharedVars, uploadVars, githubVars, scoreVars>>

\* The effect runs some time after the update that made it due.
GithubEffect ==
  /\ EffectDue(page, effect)
  /\ Shown(useEffect(PageState))
  /\ UNCHANGED uploadFetch
  /\ UNCHANGED <<parserVars, sharedVars, uploadVars, githubVars, scoreVars>>

\* What await fetch("/api/github") gives: a response with the data, a
\* response that is not ok, with or without a message, or a throw.
InsightsOutcomes ==
  {[arrives |-> TRUE, ok |-> TRUE, message |-> Null],
   [arrives |-> TRUE, ok |-> FALSE, message |-> Null],
   [arrives |-> TRUE, ok |-> FALSE, message |-> Some("Not Found")],
   [arrives |-> FALSE, ok |-> FALSE, message |-> Some("fetch failed")]}

\* fetchGithubInsights from the end of its last await to its end.
InsightsApplied(k, o) ==
  /\ page' = InsightsSettled(page, githubFetches[k], o)
  /\ githubFetches' = [githubFetches EXCEPT ![k] = FetchSettled(@, uploadFetch.resumes)]

\* await fetch("/api/github") ends: with a response, whose body is then
\* awaited, or with a throw, which the catch handles.
InsightsArrived ==
  /\ \E k \in 1..Len(githubFetches), o \in InsightsOutcomes :
       /\ githubFetches[k].status = "pending"
       /\ IF o.arrives
          THEN /\ githubFetches' = [githubFetches EXCEPT ![k].status = "arrived",
                                                         ![k].response = Some(o)]
               /\ UNCHANGED page
          ELSE InsightsApplied(k, o)
  /\ UNCHANGED <<effect, uploadFetch>>
  /\ UNCHANGED <<parserVars, sharedVars, uploadVars, githubVars, scoreVars>>

\* await response.json() ends.
InsightsResponded ==
  /\ \E k \in 1..Len(githubFetches) :
       /\ githubFetches[k].status = "arrived"
       /\ InsightsApplied(k, githubFetches[k].response[1])
  /\ UNCHANGED <<effect, uploadFetch>>
  /\ UNCHANGED <<parserVars, sharedVars, uploadVars, githubVars, scoreVars>>

\* The upload route runs on the request and answers it.
Answered(h) ==
  /\ response' = Some(h.response)
  /\ parseCalls' = parseCalls + h.parseCalls

Resumed(from, to) == uploadPc = from /\ uploadPc' = to

\* await request.formData() ends: the route answers, or goes on to
\* extractTextFromFile, which awaits file.arrayBuffer().
FormDataRead ==
  /\ IF request.body = "form" /\ request.resume = "file"
     THEN Resumed("formData", "arrayBuffer") /\ UNCHANGED <<response, parseCalls>>
     ELSE Resumed("formData", "done") /\ Answered(AfterFormData(request))
  /\ UNCHANGED <<request, uploadText>>
  /\ UNCHANGED <<parserVars, sharedVars, githubVars, scoreVars, pageVars>>

\* await file.arrayBuffer() ends: a PDF goes to extractPdfText, which awaits
\* the import of pdf-parse; for another file extractTextFromFile returns or throws.
BufferRead ==
  /\ IF isPdf(request)
     THEN Resumed("arrayBuffer", "import") /\ UNCHANGED uploadText
     ELSE /\ Resumed("arrayBuffer", "text")
          /\ uploadText' = extractTextFromFile(request, NoText)
  /\ UNCHANGED <<request, response, parseCalls>>
  /\ UNCHANGED <<parserVars, sharedVars, githubVars, scoreVars, pageVars>>

\* await import("pdf-parse/lib/pdf-parse.js") ends: pdfParse(buffer) is called.
PdfParseImported ==
  /\ Resumed("import", "pdfParse")
  /\ UNCHANGED <<request, response, parseCalls, uploadText>>
  /\ UNCHANGED <<parserVars, sharedVars, githubVars, scoreVars, pageVars>>

\* await pdfParse(buffer) ends: extractPdfText returns the text or throws.
PdfParsed ==
  /\ Resumed("pdfParse", "text")
  /\ uploadText' = extractTextFromFile(request, extractPdfText(request))
  /\ UNCHANGED <<request, response, parseCalls>>
  /\ UNCHANGED <<parserVars, sharedVars, githubVars, scoreVars, pageVars>>

\* The route calls parseResumeText on the patterns as they are and answers.
ParsedAndAnswered(c) ==
  /\ Answered(AfterExtract(uploadText, c.r))
  /\ Recorded(uploadText.v, c)

\* await extractTextFromFile(resumeFile) ends.
TextExtracted ==
  /\ Resumed("text", "done")
  /\ IF ReachesParse(uploadText)
     THEN ParsedAndAnswered(parseShared(uploadText.v, lastIndex))
     ELSE Answered(AfterExtract(uploadText, Normal(NoResult))) /\ UNCHANGED sharedVars
  /\ UNCHANGED <<request, uploadText>>
  /\ UNCHANGED <<parserVars, githubVars, scoreVars, pageVars>>

\* The texts of the other requests.
OtherTexts == {"a@b.co c@d.co"}

\* Another request has parseResumeText called while this one is suspended.
OtherParse ==
  /\ uploadPc # "done"
  /\ \E t \in OtherTexts : Call(t)

\* The GitHub route, one step per await: the body of the request, then for
\* the profile, the repositories and the events the fetch and the body of
\* its response, and in between the README of each chosen repository and
\* Promise.all over them. The route shares no state with another request.
GhAnswered(status, message) ==
  /\ ghResponse' = Some(JsonError(status, message))
  /\ ghPc' = "done"

GhStart ==
  /\ ghPc = "start"
  /\ IF ~ghBody.json \/ IsNull(ghBody.username)
     THEN GhAnswered(400, UsernameRequiredMessage) /\ UNCHANGED ghData
     ELSE IF Len(trim(ghBody.username[1])) = 0
     THEN GhAnswered(400, UsernameEmptyMessage) /\ UNCHANGED ghData
     ELSE /\ ghData' = [ghData EXCEPT !.username = trim(ghBody.username[1]),
                                      !.repoLimit = repoLimitOf(ghBody)]
          /\ ghPc' = "profile"
          /\ UNCHANGED ghResponse
  /\ UNCHANGED <<ghBody, ghSeen, parserVars, sharedVars, uploadVars, scoreVars, pageVars>>

\* await fetch(...) of fetchGithubJson ends: fetch throws when the API cannot
\* be reached, and POST answers 500; otherwise fetchGithubJson goes on to
\* await response.json(), at the place json of ghPc.
Arrived(o, json) ==
  IF o.kind = "network" THEN GhAnswered(500, fetchGithubJson(o).v)
  ELSE ghPc' = json /\ UNCHANGED ghResponse

ProfileFetched(r) ==
  IF r.threw THEN GhAnswered(500, r.v) /\ UNCHANGED ghData
  ELSE /\ ghData' = [ghData EXCEPT !.profile = r.v]
       /\ ghPc' = "repos"
       /\ UNCHANGED ghResponse

\* The README request of a repository as sortedRepos.map leaves it: its
\* fetch is awaited.
ReadmeRequested == [at |-> "fetch", readmeExcerpt |-> Null]

\* With the repositories POST sorts them, keeps repoLimit of them and calls
\* fetchReadmeExcerpt on each, which runs up to its await fetch(...).
ReposFetched(r) ==
  IF r.threw THEN GhAnswered(500, r.v) /\ UNCHANGED <<ghData, ghSeen>>
  ELSE /\ ghData' = [ghData EXCEPT
                       !.repos = r.v,
                       !.readmes = [k \in 1..Len(sortedReposOf(r.v, ghData.repoLimit))
                                      |-> ReadmeRequested]]
       /\ ghSeen' = [ghSeen EXCEPT
                       !.readmes = [k \in 1..Len(sortedReposOf(r.v, ghData.repoLimit))
                                      |-> NoOutcome]]
       /\ ghPc' = "readmes"
       /\ UNCHANGED ghResponse

\* fetchReadmeExcerpt of repository k returns or throws r: its promise in
\* Promise.all is settled, and a rejection rejects Promise.all at once, which
\* POST catches.
ReadmeSettled(k, r) ==
  IF r.threw THEN GhAnswered(500, r.v) /\ UNCHANGED ghData
  ELSE /\ ghData' = [ghData EXCEPT
                       !.readmes[k] = [at |-> "settled", readmeExcerpt |-> r.v]]
       /\ UNCHANGED <<ghPc, ghResponse>>

\* await fetch(...) of fetchReadmeExcerpt ends for repository k: with an ok
\* response it goes on to await response.text(), otherwise it is over.
ReadmeArrived(k, o, r) ==
  IF o.kind = "ok"
  THEN ghData' = [ghData EXCEPT !.readmes[k].at = "text"] /\ UNCHANGED <<ghPc, ghResponse>>
  ELSE ReadmeSettled(k, r)

\* await Promise.all(...) ends with every README settled.
ReadmesFetched(sortedRepos) ==
  /\ ghData' = [ghData EXCEPT !.reposWithReadme =
                  [k \in 1..Len(sortedRepos)
                     |-> WithReadme(sortedRepos[k], ghData.readmes[k].readmeExcerpt)]]
  /\ ghPc' = "events"
  /\ UNCHANGED ghResponse

EventsFetched(r) ==
  /\ IF r.threw THEN GhAnswered(500, r.v)
     ELSE /\ ghResponse' = Some(JsonData(payloadOf(ghData.profile, ghData.repos,
                                                   ghData.reposWithReadme, r.v)))
          /\ ghPc' = "done"
  /\ UNCHANGED ghData

----------------------------------------------------------------------------
(* The texts the calls are checked on                                      *)

\* Every concatenation of at most n tokens of pool.
RECURSIVE Texts(_, _)
Texts(pool, n) ==
  IF n = 0 THEN {""}
  ELSE LET shorter == Texts(pool, n - 1)
       IN shorter \cup {t \o tok : t \in shorter, tok \in pool}

\* n copies of str, built by doubling.
RECURSIVE Repeat(_, _)
Repeat(str, n) ==
  IF n = 0 THEN ""
  ELSE LET half == Repeat(str, n \div 2)
       IN half \o half \o (IF n % 2 = 1 THEN str ELSE "")

\* Line endings, blank runs and outer whitespace: every string over four characters.
MaxCleanLen == 5

CleanInputs ==
  Texts({"\r", "\n", " ", "a"}, MaxCleanLen)
    \cup {VerticalTab, VerticalTab \o "a" \o VerticalTab, " " \o VerticalTab \o "\n"}

\* Addresses that differ in letter case only, and separators.
MaxEmailTokens == 3

EmailInputs ==
  Texts({"Jo@x.io", "jo@x.io", "JO@X.IO", "me@y.co", " ", ",", "a"}, MaxEmailTokens)

\* Phone numbers in pieces, with every kind of separator between them.
MaxPhoneTokens == 3

PhoneInputs ==
  Texts({"415-555-2671", "(415)", "555 2671", "+1", " ", "\n", "-"}, MaxPhoneTokens)

\* Profile links: a link with paths and punctuation around it, in pieces, and
\* every spelling of the scheme, the www. prefix and the host before a path.
MaxGithubTokens == 3

LinkSpellings ==
  {scheme \o www \o host \o path :
     scheme \in {"https://", "http://", "HTTP://"},
     www \in {"", "www.", "WWW."},
     host \in {"github.com/", "GitHub.com/"},
     path \in {"", "jane", "Jane/repo", "www.jane", "jane.", "jane)."}}

GithubInputs ==
  Texts({"https://github.com/", "jane", "/", ".", ")", " "}, MaxGithubTokens)
    \cup LinkSpellings

\* A skills section of k tokens closed in one of three ways, then m sentences.
MaxSkillCount == 17

MaxSentenceCount == 6

LimitInputs ==
  {"Skills: " \o Repeat("Go, ", k) \o close \o Join([j \in 1..m |-> Repeat("b", j) \o "."], 1, m, " ") :
     k \in 0..MaxSkillCount, m \in 0..MaxSentenceCount,
     close \in {"\n\n", "\nExperience ", " "}}

\* The six-line sample resume, and the texts that keep some of its lines.
SampleLines ==
  <<"Jane Doe",
    "Senior Backend Engineer",
    "Contact: jane.doe@example.com, (415) 555-2671",
    "https://github.com/janedoe",
    "Skills: Go, Kubernetes, PostgreSQL",
    "Experience: Led migration of billing service, improved throughput by 40%.">>

Sample == Join(SampleLines, 1, Len(SampleLines), "\n")

KeepLines(keep) ==
  LET kept == SelectSeq([k \in 1..Len(SampleLines) |-> IF k \in keep THEN <<SampleLines[k]>> ELSE <<>>],
                        LAMBDA l : Len(l) > 0)
  IN Join([k \in 1..Len(kept) |-> kept[k][1]], 1, Len(kept), "\n")

SampleInputs == {KeepLines(keep) : keep \in SUBSET (1..Len(SampleLines))}

\* Sentences around the length limit, with and without terminal punctuation,
\* alone and next to short sentences, some of them repeated.
MaxOver == 10

LongInputs ==
  {lead \o Repeat("a", n) \o end \o tail :
     n \in {SentenceMaxLen, SentenceMaxLen + 1, SentenceMaxLen + MaxOver},
     lead \in {"", "Hi. "}, end \in {"", "."}, tail \in {"", " Hi.", "\nGo! Go!"}}

MaxShortTokens == 3

ShortInputs == Texts({"Hi.", "Go!", " ", "\n", "a"}, MaxShortTokens)

SentenceInputs == LongInputs \cup ShortInputs

\* Skills sections: a header label in some spelling (or a word that is no
\* label), with and without the colon, a body of a few tokens, and every way
\* the section can end.
MaxBodyTokens == 3

SkillInputs ==
  {pre \o label \o colon \o body \o close :
     pre \in {"", "skills grow. "},
     label \in {"Skills", "Technical Skills", "TOOLBOX", "technologies", "Notes"},
     colon \in {":", " : ", "\n"},
     body \in Texts({"Go, ", "C\n"}, MaxBodyTokens),
     close \in {"", "\n\nJobs", "\nExperience", " projects"}}

\* Lines of one to MaxNameWords words with one space, two spaces or a tab
\* between them, after lines that extractName skips and before a line it
\* would accept; and lines at the length limit and one past it.
MaxNameWords == 7

NameInputs ==
  {pre \o Join([j \in 1..n |-> "Al"], 1, n, gap) \o post :
     pre \in {"", "\n", "Curriculum Vitae\n", "my CURRICULUM VITAE\n", "Room 7\n"},
     n \in 1..MaxNameWords, gap \in {" ", "  ", "\t"},
     post \in {"", "\nBo Li"}}
    \cup {Repeat("a", n) \o "\n Bo Li " : n \in {NameMaxLen, NameMaxLen + 1}}

\* A name line after lines that extractName skips, and what can follow it:
\* nothing, a blank line, a line of white space, a line at the length limit
\* or one past it, a line with white space around it, the name once more.
HeadlineInputs ==
  {pre \o name \o next :
     pre \in {"", "\n", "Room 7\n", "AL BO 2\n", "Curriculum Vitae\n"},
     name \in {"Al Bo", " al\t", "7"},
     next \in {"", "\n", "\n\nDev", "\n\t\nDev", "\n" \o VerticalTab \o "\nDev", "\n Dev ", "\nDev\nal bo\nOps",
               "\n" \o Repeat("d", HeadlineMaxLen),
               "\n" \o Repeat("d", HeadlineMaxLen + 1),
               "\n  " \o Repeat("d", HeadlineMaxLen) \o " \nx"}}

\* Sentences as tokenizeSentences hands them to scoreSentence (trimmed and not
\* empty): keywords in either letter case, once, repeated and inside a longer
\* word, the characters that earn a point, and sentences around the length
\* at which the length score stops growing.
MaxScoreTokens == 3

ScoreInputs ==
  {t \in Texts({"led", "Led", "misled", "built", " ", "-", "*", "%", "7", "x"}, MaxScoreTokens) :
     Len(t) > 0 /\ trim(t) = t}
    \cup {Repeat("a", n) \o tail : n \in {99, 100, 101}, tail \in {"", " led", " 7-"}}

\* Up to MaxSummarySentences different sentences of SentencePool in every
\* order, and texts that repeat a sentence.  Two pairs of the pool have equal
\* scores ("Ab." and "Cd!", "a-b." and "ab7.").
SentencePool == <<"Ab.", "Cd!", "Led.", "x7?", "a-b.", "ab7.">>

MaxSummarySentences == 5

Injections(n) ==
  {p \in [1..n -> 1..Len(SentencePool)] : \A i, j \in 1..n : p[i] = p[j] => i = j}

SummaryInputs ==
  {Join([k \in DOMAIN p |-> SentencePool[p[k]]], 1, Len(p), " ") :
     p \in UNION {Injections(n) : n \in 0..MaxSummarySentences}}
    \cup Texts({"Ab. ", "Led. ", "x7?\n"}, 3)

Init ==
  InitWith(CleanInputs \cup LimitInputs \cup SampleInputs)

Spec == Init /\ [][Next]_vars

InitClean == InitWith(CleanInputs)

SpecClean == InitClean /\ [][Next]_vars

InitEmail == InitWith(EmailInputs)

SpecEmail == InitEmail /\ [][Next]_vars

InitPhone == InitWith(PhoneInputs)

SpecPhone == InitPhone /\ [][Next]_vars

InitGithub == InitWith(GithubInputs)

SpecGithub == InitGithub /\ [][Next]_vars

InitLimit == InitWith(LimitInputs)

SpecLimit == InitLimit /\ [][Next]_vars

InitSample == InitWith(SampleInputs)

SpecSample == InitSample /\ [][Next]_vars

InitSentence == InitWith(SentenceInputs)

SpecSentence == InitSentence /\ [][Next]_vars

InitSkill == InitWith(SkillInputs \cup LimitInputs)

SpecSkill == InitSkill /\ [][Next]_vars

InitName == InitWith(NameInputs)

SpecName == InitName /\ [][Next]_vars

InitHeadline == InitWith(HeadlineInputs)

SpecHeadline == InitHeadline /\ [][Next]_vars

InitScore ==
  /\ ParserIdle /\ SharedIdle /\ UploadIdle /\ GithubIdle /\ PageIdle
  /\ scoreArg \in ScoreInputs /\ scoreValue = Null

NextScore == ScoreSentence

SpecScore == InitScore /\ [][NextScore]_vars

InitSummary == InitWith(SummaryInputs)

SpecSummary == InitSummary /\ [][Next]_vars

\* Texts with two emails, two phones and two links, and texts with none.
SharedInputs ==
  {"a@b.co c@d.co",
   "415-555-2671 (415) 555-2671",
   "https://github.com/jane https://github.com/joe",
   "Jane Doe\njane@x.io",
   ""}

InitShared == ParserIdle /\ SharedIdle /\ UploadIdle /\ GithubIdle /\ ScoreIdle /\ PageIdle

NextShared == \E t \in SharedInputs : Call(t)

SpecShared == InitShared /\ [][NextShared]_vars

\* Upload requests: a body that is no form, a form without the field or with
\* a string under it, and files of every type and name with every content.
FileTypes == {"application/pdf", "text/plain", "application/msword", ""}

FileNames == {"cv.pdf", "cv.txt", "cv.doc", "cv.DOCX", "cv.md", "docx"}

FileTexts == {"", " \n\t" \o VerticalTab, "Jane Doe", Sample}

UploadRequests ==
  {NoFile("malformed", "absent"), NoFile("notform", "absent"),
   NoFile("form", "absent"), NoFile("form", "string")}
    \cup [body : {"form"}, resume : {"file"}, type : FileTypes, name : FileNames,
          content : FileTexts, pdfFails : BOOLEAN]

InitUpload ==
  /\ ParserIdle /\ SharedIdle /\ GithubIdle /\ ScoreIdle /\ PageIdle
  /\ request \in UploadRequests /\ response = Null /\ parseCalls = 0
  /\ uploadPc = "formData" /\ uploadText = NoText

NextUpload ==
  FormDataRead \/ BufferRead \/ PdfParseImported \/ PdfParsed \/ TextExtracted \/ OtherParse

SpecUpload == InitUpload /\ [][NextUpload]_vars

InitPage == ParserIdle /\ SharedIdle /\ UploadIdle /\ GithubIdle /\ ScoreIdle /\ PageIdle

NextPage ==
  \/ HandleFileUpload \/ ParseArrived \/ ParseResponded
  \/ GithubEffect \/ InsightsArrived \/ InsightsResponded

SpecPage == InitPage /\ [][NextPage]_vars

\* Requests to the GitHub route and the answers of the GitHub API.
Body(username, repoLimit) ==
  [json |-> TRUE, username |-> username, repoLimit |-> repoLimit]

GithubBodies ==
  {NoBody, Body(Null, Null), Body(Some("  "), Null), Body(Some(VerticalTab), Null),
   Body(Some(" jane "), Null),
   Body(Some("jane"), Some(1)), Body(Some("jane"), Some(12)), Body(Some("jane"), Some(0))}

ApiErrors == {ErrorStatus("404", Some("Not Found")), ErrorStatus("403", Null), Unreachable}

ProfileOutcomes == {Answer([login |-> "jane", followers |-> 3])} \cup ApiErrors

Repo(name, stars, topics) == [name |-> name, stargazers_count |-> stars, topics |-> topics]

RepoLists ==
  {<<>>,
   <<Repo("a", 1, Null)>>,
   <<Repo("a", 1, Null), Repo("b", 5, Some(<<"go">>))>>,
   <<Repo("a", 2, Null), Repo("b", 2, Null), Repo("c", 7, Null)>>}

ReposOutcomes == {Answer(repos) : repos \in RepoLists} \cup ApiErrors

ReadmeOutcomes ==
  {Answer("# readme"), Answer(Repeat("r", ReadmeExcerptLen + 1)),
   ErrorStatus("404", Some("Not Found")), Unreachable}

Event(id, type, repo) == [id |-> id, type |-> type, repo |-> repo]

EventLists ==
  {<<>>, <<Event("1", "PushEvent", "jane/a"), Event("2", "WatchEvent", "")>>}

EventsOutcomes == {Answer(events) : events \in EventLists} \cup ApiErrors

\* await fetch(...) ends for the profile (route.ts:8).
GhProfileArrived ==
  /\ ghPc = "profile"
  /\ \E o \in ProfileOutcomes :
       /\ ghSeen' = [ghSeen EXCEPT !.profile = o]
       /\ Arrived(o, "profileJson")
  /\ UNCHANGED <<ghBody, ghData, parserVars, sharedVars, uploadVars, scoreVars, pageVars>>

\* await response.json() ends for the profile (route.ts:17 or 25).
GhProfile ==
  /\ ghPc = "profileJson"
  /\ ProfileFetched(fetchGithubJson(ghSeen.profile))
  /\ UNCHANGED <<ghBody, ghSeen, parserVars, sharedVars, uploadVars, scoreVars, pageVars>>

\* await fetch(...) ends for the repositories.
GhReposArrived ==
  /\ ghPc = "repos"
  /\ \E o \in ReposOutcomes :
       /\ ghSeen' = [ghSeen EXCEPT !.repos = o]
       /\ Arrived(o, "reposJson")
  /\ UNCHANGED <<ghBody, ghData, parserVars, sharedVars, uploadVars, scoreVars, pageVars>>

\* await response.json() ends for the repositories.
GhRepos ==
  /\ ghPc = "reposJson"
  /\ ReposFetched(fetchGithubJson(ghSeen.repos))
  /\ UNCHANGED <<ghBody, parserVars, sharedVars, uploadVars, scoreVars, pageVars>>

\* await fetch(...) ends for the README of one repository (route.ts:33).
GhReadmeArrived ==
  /\ ghPc = "readmes"
  /\ \E k \in 1..Len(ghData.readmes) : \E o \in ReadmeOutcomes :
       /\ ghData.readmes[k].at = "fetch"
       /\ ghSeen' = [ghSeen EXCEPT !.readmes[k] = o]
       /\ ReadmeArrived(k, o, fetchReadmeExcerpt(o))
  /\ UNCHANGED <<ghBody, parserVars, sharedVars, uploadVars, scoreVars, pageVars>>

\* await response.text() ends for the README of one repository (route.ts:48).
GhReadmeText ==
  /\ ghPc = "readmes"
  /\ \E k \in 1..Len(ghData.readmes) :
       /\ ghData.readmes[k].at = "text"
       /\ ReadmeSettled(k, fetchReadmeExcerpt(ghSeen.readmes[k]))
  /\ UNCHANGED <<ghBody, ghSeen, parserVars, sharedVars, uploadVars, scoreVars, pageVars>>

\* await Promise.all(...) ends (route.ts:203).
GhReadmes ==
  /\ ghPc = "readmes"
  /\ \A k \in 1..Len(ghData.readmes) : ghData.readmes[k].at = "settled"
  /\ ReadmesFetched(sortedReposOf(ghData.repos, ghData.repoLimit))
  /\ UNCHANGED <<ghBody, ghSeen, parserVars, sharedVars, uploadVars, scoreVars, pageVars>>

\* await fetch(...) ends for the events.
GhEventsArrived ==
  /\ ghPc = "events"
  /\ \E o \in EventsOutcomes :
       /\ ghSeen' = [ghSeen EXCEPT !.events = o]
       /\ Arrived(o, "eventsJson")
  /\ UNCHANGED <<ghBody, ghData, parserVars, sharedVars, uploadVars, scoreVars, pageVars>>

\* await response.json() ends for the events.
GhEvents ==
  /\ ghPc = "eventsJson"
  /\ EventsFetched(fetchGithubJson(ghSeen.events))
  /\ UNCHANGED <<ghBody, ghSeen, parserVars, sharedVars, uploadVars, scoreVars, pageVars>>

InitGithubRoute ==
  /\ ParserIdle /\ SharedIdle /\ UploadIdle /\ ScoreIdle /\ PageIdle
  /\ ghBody \in GithubBodies /\ ghPc = "start" /\ ghSeen = NoSeen
  /\ ghData = NoGithubData /\ ghResponse = Null

NextGithubRoute ==
  \/ GhStart
  \/ GhProfileArrived \/ GhProfile
  \/ GhReposArrived \/ GhRepos
  \/ GhReadmeArrived \/ GhReadmeText \/ GhReadmes
  \/ GhEventsArrived \/ GhEvents

SpecGithubRoute == InitGithubRoute /\ [][NextGithubRoute]_vars

----------------------------------------------------------------------------
(* Properties                                                              *)

Done == phase = "done"

Nullable(o) == Len(o) <= 1

\* C1: for every input, the empty and the whitespace-only strings included,
\* parseResumeText runs to a return and never throws, and what is missing is
\* a null or an empty field of the result.
C1_ParseReturns ==
  Done => /\ outcome = "returned"
          /\ Nullable(result.name) /\ Nullable(result.headline)
          /\ Nullable(result.githubUrl) /\ Nullable(result.githubUsername)
          /\ trim(text) = "" => result = NoResult

\* A whitespace-only text was parsed and gave the empty result.
C1_Witness ==
  /\ Done /\ ~fed /\ outcome = "returned"
  /\ Len(text) > 0 /\ trim(text) = ""
  /\ result = NoResult

NoTwoEqual(xs) == \A i, j \in 1..Len(xs) : i # j => xs[i] # xs[j]

\* C2: emails holds lower-cased entries, no two of them equal: occurrences of
\* one address in different letter case collapse to one entry.
C2_EmailsDistinct ==
  Done => /\ \A k \in 1..Len(result.emails) :
               toLowerCase(result.emails[k]) = result.emails[k]
          /\ NoTwoEqual(result.emails)

\* C3: phones holds no entry twice.
C3_PhonesDistinct == Done => NoTwoEqual(result.phones)

\* /\r\n|\r/g
LINE_END_REGEX == Regex(<<Alt(<<Lit("\r\n"), Lit("\r")>>)>>, TRUE, FALSE)

\* /\n{3,}/g
LONG_BLANK_RUN_REGEX == Regex(<<Rep(Cls({"\n"}), 3, Inf)>>, TRUE, FALSE)

\* The normalization C4 describes: each CR-LF and each lone CR is one LF, a
\* run of three or more LFs is two, outer whitespace is trimmed.
NormalizedAsClaimed(txt) ==
  trim(replace(replace(txt, LINE_END_REGEX, "\n"), LONG_BLANK_RUN_REGEX, "\n\n"))

\* C4: rawText is the text with each CR-LF and each lone CR turned into one
\* LF, runs of three or more LFs collapsed to two, and outer whitespace trimmed.
C4_LineEndings == Done /\ ~fed => result.rawText = NormalizedAsClaimed(text)

\* C5: normalization is idempotent: normalizing a rawText returns it unchanged,
\* and parsing the rawText of a result returns that same rawText.
C5_Idempotent ==
  Done => /\ cleanText(result.rawText) = result.rawText
          /\ fed => result.rawText = text

\* The rawText of a result holding a blank line was parsed again.
C5_Witness == Done /\ fed /\ includes(result.rawText, "a\n\na")

\* C6: a non-null username comes with the URL "https://github.com/" + username.
C6_CanonicalUrl ==
  Done /\ ~IsNull(result.githubUsername)
    => result.githubUrl = Some("https://github.com/" \o result.githubUsername[1])

\* A link with a www. prefix, a capital in the host and a further path segment
\* gave a username.
C6_Witness ==
  /\ Done
  /\ text = "http://www.GitHub.com/Jane/repo"
  /\ result.githubUsername = Some("Jane")

\* The profile-link pattern occurs in t: http:// or https://, optional www.,
\* github.com/ (letters in either case), then a character that is neither
\* whitespace nor ")".
HasProfileLink(t) ==
  \E i \in 1..Len(t) :
    \E head \in {"http://github.com/", "https://github.com/",
                 "http://www.github.com/", "https://www.github.com/"} :
      /\ i + Len(head) <= Len(t)
      /\ toLowerCase(SubSeq(t, i, i + Len(head) - 1)) = head
      /\ CharAt(t, i + Len(head)) \notin WhiteSpace \cup {")"}

\* C7: the URL is non-null exactly when the normalized text holds a match of
\* the profile-link pattern, and the username is non-null only with the URL.
C7_UrlIffLink ==
  Done => /\ ~IsNull(result.githubUrl) <=> HasProfileLink(result.rawText)
          /\ ~IsNull(result.githubUsername) => ~IsNull(result.githubUrl)

\* A link with an empty first path segment gave a URL without a username.
C7_Witness ==
  /\ Done
  /\ HasProfileLink(result.rawText)
  /\ ~IsNull(result.githubUrl)
  /\ IsNull(result.githubUsername)

DigitCount(s) == Cardinality({i \in 1..Len(s) : CharAt(s, i) \in Digits})

\* C8: every entry of phones has at least 10 digits, no whitespace other than
\* single spaces between other characters, and no outer whitespace.
C8_PhoneShape ==
  Done => \A k \in 1..Len(result.phones) :
            LET p == result.phones[k]
            IN /\ DigitCount(p) >= 10
               /\ \A i \in 1..Len(p) :
                    CharAt(p, i) \in WhiteSpace
                      => /\ CharAt(p, i) = " "
                         /\ 1 < i /\ i < Len(p)
                         /\ CharAt(p, i + 1) \notin WhiteSpace

\* A phone number written across a line break is kept with one space.
C8_Witness ==
  /\ Done
  /\ includes(text, "(415)\n555 2671")
  /\ \E k \in 1..Len(result.phones) : result.phones[k] = "(415) 555 2671"

\* C9: skills has at most 15 entries and summary at most 4.
C9_Caps == Done => Len(result.skills) <= 15 /\ Len(result.summary) <= 4

\* A text with more than 15 skill tokens and more than 4 sentences was parsed.
C9_Witness ==
  /\ Done
  /\ includes(text, Repeat("Go, ", 16))
  /\ Len(tokenizeSentences(result.rawText)) > 4
  /\ Len(result.skills) = 15
  /\ Len(result.summary) = 4

\* The digits of s, in order.
DigitString(s) ==
  Join([i \in 1..Len(s) |-> IF CharAt(s, i) \in Digits THEN CharAt(s, i) ELSE ""],
       1, Len(s), "")

Has(xs, x) == \E k \in 1..Len(xs) : xs[k] = x

\* C10: the six-line sample resume gives name "Jane Doe", headline "Senior
\* Backend Engineer", the one email, a phone with digits 4155552671, username
\* "janedoe", URL "https://github.com/janedoe" and the three skills.
C10_Sample ==
  Done /\ text = Sample
    => /\ result.name = Some("Jane Doe")
       /\ result.headline = Some("Senior Backend Engineer")
       /\ result.emails = <<"jane.doe@example.com">>
       /\ \E k \in 1..Len(result.phones) : DigitString(result.phones[k]) = "4155552671"
       /\ result.githubUsername = Some("janedoe")
       /\ result.githubUrl = Some("https://github.com/janedoe")
       /\ Has(result.skills, "Go")
       /\ Has(result.skills, "Kubernetes")
       /\ Has(result.skills, "PostgreSQL")

\* The sample resume was parsed.
C10_Witness == Done /\ ~fed /\ text = Sample /\ outcome = "returned"

\* C11: for the six-line sample resume, summary holds the sentence "Led
\* migration of billing service, improved throughput by 40%." as an entry of
\* its own, starting at "Led migration" or at "Experience: Led migration".
C11_SampleSummary ==
  Done /\ text = Sample
    => \/ Has(result.summary,
              "Led migration of billing service, improved throughput by 40%.")
       \/ Has(result.summary,
              "Experience: Led migration of billing service, improved throughput by 40%.")

\* C12: the empty string and every whitespace-only string give a result, not
\* a throw, with name, headline, URL and username null, the four lists empty
\* and rawText "".
C12_EmptyInput ==
  Done /\ (\A i \in 1..Len(text) : CharAt(text, i) \in WhiteSpace)
    => /\ outcome = "returned"
       /\ IsNull(result.name) /\ IsNull(result.headline)
       /\ IsNull(result.githubUrl) /\ IsNull(result.githubUsername)
       /\ Len(result.emails) = 0 /\ Len(result.phones) = 0
       /\ Len(result.skills) = 0 /\ Len(result.summary) = 0
       /\ result.rawText = ""

\* The empty string was parsed.
C12_Witness == Done /\ ~fed /\ text = "" /\ outcome = "returned" /\ result.rawText = ""



\* No ".", "!" or "?" occurs in s.
NoTerminal(s) == \A i \in 1..Len(s) : CharAt(s, i) \notin {".", "!", "?"}

\* C13: every entry of summary is non-empty, has no outer whitespace and at
\* most 300 characters, and no entry occurs twice; a text that is one
\* 310-character sentence without terminal punctuation gives an empty summary.
C13_SummaryEntries ==
  Done => /\ \A k \in 1..Len(result.summary) :
               /\ Len(result.summary[k]) > 0
               /\ Len(result.summary[k]) <= 300
               /\ trim(result.summary[k]) = result.summary[k]
          /\ NoTwoEqual(result.summary)
          /\ (Len(text) = 310 /\ NoTerminal(text) /\ trim(text) = text
                => Len(result.summary) = 0)

\* The 310-character sentence without terminal punctuation was parsed and gave
\* an empty summary.
C13_Witness ==
  /\ Done /\ ~fed
  /\ text = Repeat("a", 310)
  /\ Len(result.summary) = 0


\* The first position at or after i at which sub occurs in s, or 0.
IndexOf(s, sub, i) ==
  LET at == {j \in i..(Len(s) - Len(sub) + 1) : SubSeq(s, j, j + Len(sub) - 1) = sub}
  IN IF at = {} THEN 0 ELSE Least(at)

\* The characters of link between the first "github.com/" (letters in either
\* case) and the next "/" or the end of link.
SegmentAfter(link, from) ==
  SubSeq(link, from,
         IF IndexOf(link, "/", from) = 0 THEN Len(link) ELSE IndexOf(link, "/", from) - 1)

FirstSegment(link) ==
  SegmentAfter(link, IndexOf(toLowerCase(link), "github.com/", 1) + Len("github.com/"))

\* C17: when the text holds a profile link, the username is the first path
\* segment of the first link (trailing punctuation stripped), whatever the
\* letter case of the scheme and the host and with or without "www.", and it
\* is null only when that segment is empty.
C17_UsernameIsFirstSegment ==
  Done /\ HasProfileLink(result.rawText)
    => LET link == rawGithubUrlOf(result.rawText)[1]
       IN result.githubUsername =
            IF Len(FirstSegment(link)) = 0 THEN Null ELSE Some(FirstSegment(link))


\* The skills pattern as C18 reads it: the colon after the label is optional.
SKILLS_OPTIONAL_COLON_REGEX ==
  Regex(<<Alt(<<Lit("skills"), Lit("technical skills"), Lit("toolbox"), Lit("technologies")>>),
          Star(Cls(WhiteSpace)),
          Opt(Lit(":")),
          Opt(Lit(" ")),
          Lazy(NotCls({}), 1, Inf),
          Alt(<<Lit("\n\n"), Lit("experience"), Lit("projects"), Lit("education")>>)>>,
        FALSE, TRUE)

\* C18: the first header label (skills, technical skills, toolbox,
\* technologies, in any letter case), with or without a colon after it, opens
\* the section, and the body runs to the first blank line or stop keyword; the
\* skills are the tokens of that body.
C18_SectionWithOrWithoutColon ==
  Done => result.skills =
            SkillsOf(result.rawText, Search(SKILLS_OPTIONAL_COLON_REGEX, result.rawText, 1))

SkillLabels == {"skills", "technical skills", "toolbox", "technologies"}

SectionEnds == {"\n\n", "experience", "projects", "education"}

OccursAt(s, sub, i) ==
  /\ i >= 1 /\ i + Len(sub) - 1 <= Len(s)
  /\ toLowerCase(SubSeq(s, i, i + Len(sub) - 1)) = sub

\* A header label, optional whitespace, a colon, at least one character and
\* then a blank line or a stop keyword occur in t.
HasSkillsSection(t) ==
  \E label \in SkillLabels : \E i \in 1..Len(t) :
    /\ OccursAt(t, label, i)
    /\ \E colonAt \in (i + Len(label))..Len(t) :
         /\ CharAt(t, colonAt) = ":"
         /\ \A k \in (i + Len(label))..(colonAt - 1) : CharAt(t, k) \in WhiteSpace
         /\ \E end \in SectionEnds : \E e \in (colonAt + 2)..Len(t) : OccursAt(t, end, e)

\* C19: skills is non-empty only if the normalized text holds a header label
\* followed, after optional whitespace, by a colon and, after at least one
\* body character, by a blank line or a stop keyword; without a header, and
\* with a section that runs to the end of the text, skills is empty.
C19_SkillsNeedSection ==
  Done => (Len(result.skills) > 0 => HasSkillsSection(result.rawText))

\* A section with a colon and a closing stop keyword gave skills.
C19_Witness ==
  /\ Done /\ ~fed
  /\ text = "TOOLBOX : Go, Go, \nExperience"
  /\ HasSkillsSection(result.rawText)
  /\ Len(result.skills) > 0

\* The k-th least element of a finite set of integers.
Kth(S, k) == CHOOSE x \in S : Cardinality({y \in S : y < x}) = k - 1

\* The pieces of body between its commas and line feeds, in order.
PiecesOf(body) ==
  LET seps == {i \in 1..Len(body) : CharAt(body, i) \in {",", "\n"}}
      n == Cardinality(seps)
  IN [k \in 1..(n + 1) |->
        SubSeq(body,
               IF k = 1 THEN 1 ELSE Kth(seps, k - 1) + 1,
               IF k = n + 1 THEN Len(body) ELSE Kth(seps, k) - 1)]

\* C20: skills is the captured body split at commas and line feeds, each
\* piece trimmed, pieces of length 0 or 1 dropped, the first 15 kept in
\* order, and nothing made distinct: a token written twice is listed twice.
C20_SkillTokens ==
  Done /\ Len(Search(SKILLS_SECTION_REGEX, result.rawText, 1)) > 0
    => LET body == PartText(result.rawText, Search(SKILLS_SECTION_REGEX, result.rawText, 1), 5)
           kept == SelectSeq(PiecesOf(body), LAMBDA piece : Len(trim(piece)) >= 2)
       IN /\ Len(result.skills) = (IF Len(kept) < 15 THEN Len(kept) ELSE 15)
          /\ \A k \in 1..Len(result.skills) : result.skills[k] = trim(kept[k])

\* A section that names one skill twice and holds a one-letter token gave the
\* skill twice and dropped the letter.
C20_Witness ==
  /\ Done /\ ~fed
  /\ text = "Skills:Go, C\nGo, \nExperience"
  /\ result.skills = <<"Go", "Go">>


\* C14: parseResumeText is a function of its input alone: two calls on the
\* same text return equal results whatever calls were made between them, and
\* the three /g patterns are left after a call as they were before it.
C14_Pure ==
  /\ lastIndex = NoLastIndex
  /\ \A i, j \in 1..Len(calls) :
       calls[i].input = calls[j].input
         => calls[i].threw = calls[j].threw /\ calls[i].result = calls[j].result

\* A text with two emails was parsed, then a text with two phones, then the
\* first text again, with the same result.
C14_Witness ==
  /\ Len(calls) = 3
  /\ calls[1].input = "a@b.co c@d.co"
  /\ calls[2].input = "415-555-2671 (415) 555-2671"
  /\ calls[3].input = calls[1].input
  /\ calls[3].result.emails = <<"a@b.co", "c@d.co">>
  /\ Len(calls[2].result.phones) = 2


\* The file is a PDF or a text file by its type or by the end of its name.
IsPdfOrText(file) ==
  \/ file.type = "application/pdf"
  \/ Len(file.type) >= 5 /\ SubSeq(file.type, 1, 5) = "text/"
  \/ \E suffix \in {".pdf", ".txt"} :
       /\ Len(file.name) >= 4
       /\ SubSeq(file.name, Len(file.name) - 3, Len(file.name)) = suffix

HasSolid(s) == \E i \in 1..Len(s) : CharAt(s, i) \notin WhiteSpace

\* The answer has data only for a PDF or text file whose extracted text has a
\* non-whitespace character, and the data is parseResumeText of that text.
DataOnlyForReadableFile ==
  ~IsNull(response[1].data)
    => /\ request.resume = "file" /\ IsPdfOrText(request)
       /\ HasSolid(request.content)
       /\ response[1].status = 200
       /\ response[1].data = Some(parseResumeText(request.content).v)

\* An extracted text that is empty or whitespace gets 400 and is not parsed
\* (500 when pdf-parse failed and there is no extracted text).
NoTextRefused ==
  request.resume = "file" /\ IsPdfOrText(request) /\ ~HasSolid(request.content)
    => /\ response[1].status \in {400, 500} /\ IsNull(response[1].data)
       /\ parseCalls = 0
       /\ (response[1].status = 500 => request.pdfFails)

\* A file of another type gets an error with an unsupported-format message.
OtherTypeRefused ==
  request.resume = "file" /\ ~IsPdfOrText(request)
    => /\ response[1].status >= 400 /\ IsNull(response[1].data)
       /\ response[1].error \in {Some(DocMessage), Some(UnsupportedMessage)}

\* No error response carries data.
NoDataInError ==
  response[1].status # 200 => IsNull(response[1].data) /\ ~IsNull(response[1].error)

\* C15 as stated: the upload route answers {data: parseResumeText(text)} only
\* for a PDF or text file whose extracted text has a non-whitespace character;
\* every request without a file under resume gets 400; an extracted text that
\* is empty or whitespace gets 400 and parseResumeText is not called; a file
\* of another type gets an error with an unsupported-format message; no error
\* response carries data.
C15_UploadAsStated ==
  ~IsNull(response) =>
    /\ DataOnlyForReadableFile
    /\ (request.resume # "file"
          => response[1].status = 400 /\ IsNull(response[1].data))
    /\ NoTextRefused
    /\ OtherTypeRefused
    /\ NoDataInError

\* C15, amended: as stated, except that a request without a file under
\* resume gets 400 when its body is read as form data, and 500 without data
\* when its body cannot be read as form data (request.formData() throws).
C15_UploadErrors ==
  ~IsNull(response) =>
    /\ DataOnlyForReadableFile
    /\ (request.body = "form" /\ request.resume # "file"
          => response[1].status = 400 /\ IsNull(response[1].data))
    /\ (request.body # "form"
          => /\ response[1].status = 500 /\ IsNull(response[1].data)
             /\ ~IsNull(response[1].error)
             /\ parseCalls = 0)
    /\ NoTextRefused
    /\ OtherTypeRefused
    /\ NoDataInError

\* C15: a request whose Content-Type is not that of a form carries no file
\* under resume; request.formData() threw and the route answered 500 with the
\* message of the error, without data and without calling parseResumeText.
C15_Witness ==
  /\ ~IsNull(response)
  /\ request.body = "notform" /\ request.resume = "absent"
  /\ response[1].status = 500
  /\ response[1].error = Some(FormDataMessage("notform"))
  /\ IsNull(response[1].data)
  /\ parseCalls = 0


\* The message of the failure of a request: the message of the error body, the
\* status line when the body has none, the error of fetch when it threw.
FailureMessage(o) ==
  IF o.kind = "network" THEN "fetch failed"
  ELSE IF Len(o.message) = 1 THEN o.message[1]
  ELSE "GitHub request failed with status " \o o.status

RequestFailed(o) == o.kind \in {"status", "network"}

AllThreeSucceeded ==
  ghSeen.profile.kind = "ok" /\ ghSeen.repos.kind = "ok" /\ ghSeen.events.kind = "ok"

\* If the request failed, the answer is 500 with its message and without data.
FailureAnswered(o) ==
  RequestFailed(o)
    => /\ ghResponse[1].status = 500
       /\ ghResponse[1].error = Some(FailureMessage(o))
       /\ IsNull(ghResponse[1].data)

\* C16: the GitHub route answers with data only if the profile, repository
\* and events requests all succeeded; if one of them fails the answer is 500
\* with the message of the failure and no data; a README request that fails
\* or throws never fails the route (the events request is still made): that
\* repository gets readmeExcerpt null.
C16_GithubErrors ==
  ghPc = "done" =>
    /\ (~IsNull(ghResponse[1].data) => AllThreeSucceeded)
    /\ FailureAnswered(ghSeen.profile)
    /\ FailureAnswered(ghSeen.repos)
    /\ FailureAnswered(ghSeen.events)
    /\ (ghSeen.profile.kind = "ok" /\ ghSeen.repos.kind = "ok"
          => ghSeen.events.kind # "none")
    /\ (AllThreeSucceeded
          => /\ ghResponse[1].status = 200
             /\ ~IsNull(ghResponse[1].data)
             /\ Len(ghResponse[1].data[1].repos) = Len(ghSeen.readmes)
             /\ \A k \in 1..Len(ghSeen.readmes) :
                  IsNull(ghResponse[1].data[1].repos[k].readmeExcerpt)
                    <=> RequestFailed(ghSeen.readmes[k]))

\* The README request of the first repository threw, that of the second one
\* got a 404, and the route answered with data.
C16_Witness ==
  /\ ghPc = "done"
  /\ AllThreeSucceeded
  /\ Len(ghSeen.readmes) = 3
  /\ ghSeen.readmes[1].kind = "network"
  /\ ghSeen.readmes[2].kind = "status"
  /\ ghSeen.readmes[3].kind = "ok"
  /\ ghResponse[1].status = 200
  /\ IsNull(ghResponse[1].data[1].repos[1].readmeExcerpt)
  /\ Len(ghResponse[1].data[1].repos[3].readmeExcerpt[1]) = 500



\* /[ \t]+/g: a run of spaces or tabs.
WORD_GAP_REGEX == Regex(<<Plus(Cls({" ", "\t"}))>>, TRUE, FALSE)

\* The test of a line as C21 states it: the words of the line are what any
\* run of spaces or tabs separates.
NameLineAsClaimed(trimmed) ==
  /\ Len(trimmed) > 0
  /\ Len(trimmed) <= NameMaxLen
  /\ ~HasDigit(trimmed)
  /\ ~includes(toLowerCase(trimmed), "curriculum vitae")
  /\ Len(split(trimmed, WORD_GAP_REGEX)) <= NameMaxWords

NameAsClaimed(lines) ==
  LET fit == {k \in 1..Len(lines) : NameLineAsClaimed(trim(lines[k]))}
  IN IF fit = {} THEN Null ELSE Some(trim(lines[Least(fit)]))

\* C21: name is the trimmed first line of the normalized text that is not
\* empty, has at most 60 characters, no digit, no "curriculum vitae" in any
\* letter case and at most 5 words, the words being separated by any run of
\* spaces or tabs; name is null exactly when no line is like that.
C21_NameIsFirstFittingLine ==
  Done => result.name = NameAsClaimed(splitOn(result.rawText, "\n"))



\* The lines whose trimmed content equals name, letter case apart.
LinesNamed(lines, name) ==
  {k \in 1..Len(lines) : toLowerCase(trim(lines[k])) = toLowerCase(name)}

\* The trimmed line after the first line named name when there is one of
\* minLen to 80 characters, and null otherwise.
LineAfterName(lines, at, minLen) ==
  IF at = {} \/ Least(at) = Len(lines) THEN Null
  ELSE IF Len(trim(lines[Least(at) + 1])) \in minLen..HeadlineMaxLen
       THEN Some(trim(lines[Least(at) + 1]))
       ELSE Null

HeadlineFrom(lines, name, minLen) ==
  IF IsNull(name) THEN Null ELSE LineAfterName(lines, LinesNamed(lines, name[1]), minLen)

\* C22 as stated: headline is null whenever name is null; otherwise it is the
\* trimmed line that follows the first line equal to name (letter case
\* apart), provided that line exists and has at most 80 characters after
\* trimming, and null otherwise.
C22_HeadlineAsStated ==
  Done => result.headline = HeadlineFrom(splitOn(result.rawText, "\n"), result.name, 0)

\* C22 amended: as stated, and the following line is moreover not empty after
\* trimming; after a name followed by a blank line headline is null.
C22_Headline ==
  Done => result.headline = HeadlineFrom(splitOn(result.rawText, "\n"), result.name, 1)

\* C22 witness: a name after a skipped line, followed by a line of exactly 80
\* characters with white space around it, which is the headline.
C22_Witness ==
  /\ Done
  /\ text = "Room 7\nAl Bo\n  " \o Repeat("d", HeadlineMaxLen) \o " \nx"
  /\ result.name = Some("Al Bo")
  /\ result.headline = Some(Repeat("d", HeadlineMaxLen))



\* The number of places of lower at which keyword starts.
Occurrences(lower, keyword) ==
  Cardinality({i \in 1..(Len(lower) - Len(keyword) + 1) :
                 SubSeq(lower, i, i + Len(keyword) - 1) = keyword})

RECURSIVE OccurrencesFrom(_, _)
OccurrencesFrom(lower, k) ==
  IF k > Len(SUMMARY_KEYWORDS) THEN 0
  ELSE Occurrences(lower, SUMMARY_KEYWORDS[k]) + OccurrencesFrom(lower, k + 1)

\* Ten times the score as C23 states it; "*" and "-" are the bullet and dash
\* glyphs of ASCII text.
ScoreAsStated(sentence) ==
  20 * OccurrencesFrom(toLowerCase(sentence), 1)
    + (IF Len(sentence) < 100 THEN Len(sentence) ELSE 100)
    + (IF \E i \in 1..Len(sentence) : CharAt(sentence, i) \in {"*", "-"} THEN 10 ELSE 0)
    + (IF \E i \in 1..Len(sentence) : CharAt(sentence, i) \in Digits \cup {"%"} THEN 10 ELSE 0)

\* C23: the score of a sentence is 2 points for each occurrence of a keyword
\* in it (letter case apart, inside a longer word too), plus min(length / 10,
\* 10), plus 1 for a bullet or dash glyph, plus 1 for "%" or a digit, and
\* nothing else changes it.
C23_ScoreAsStated ==
  ~IsNull(scoreValue) => scoreValue[1] = ScoreAsStated(scoreArg)



\* The number of sentences ordered before sentence k: those of a higher
\* score, and those of the same score that come earlier.
Ahead(sentences, k) ==
  Cardinality({j \in 1..Len(sentences) :
                 \/ scoreSentence(sentences[j]) > scoreSentence(sentences[k])
                 \/ /\ scoreSentence(sentences[j]) = scoreSentence(sentences[k])
                    /\ j < k})

\* The first four sentences in that order, or all of them when fewer.
SummaryAsStated(sentences) ==
  [r \in 1..(IF Len(sentences) < SummaryCap THEN Len(sentences) ELSE SummaryCap) |->
     sentences[CHOOSE k \in 1..Len(sentences) : Ahead(sentences, k) = r - 1]]

\* No sentence left out of summary scores higher than one in it.
NoneBetterLeftOut(sentences, summary) ==
  \A i \in 1..Len(summary), j \in 1..Len(sentences) :
    (\A k \in 1..Len(summary) : summary[k] # sentences[j])
      => scoreSentence(sentences[j]) <= scoreSentence(summary[i])

\* The branch of buildSummary taken when no sentence is selected would
\* return the first three sentences; it needs sentences and an empty selection.
FallbackTaken(sentences) ==
  Len(sentences) > 0 /\ Len(SummaryAsStated(sentences)) = 0

SummaryHolds(sentences, summary) ==
  /\ summary = SummaryAsStated(sentences)
  /\ NoneBetterLeftOut(sentences, summary)
  /\ ~FallbackTaken(sentences)
  /\ (Len(sentences) > SummaryFallback => Len(summary) > SummaryFallback)

\* C24: summary is the first four (all when fewer, none when none) of the
\* unique candidate sentences in descending order of score, sentences of equal
\* score in tokenization order; so no sentence left out scores higher than
\* one included, and the fallback to the first three sentences is never taken.
C24_Summary ==
  Done => SummaryHolds(tokenizeSentences(result.rawText), result.summary)

\* C24 witness: five sentences, two pairs of equal score; the tie at the top
\* keeps its order and the tie at the cut keeps the earlier sentence.
C24_Witness ==
  /\ Done
  /\ text = "Ab. Cd! Led. a-b. ab7."
  /\ result.summary = <<"Led.", "a-b.", "ab7.", "Ab.">>



\* A response was applied to the GitHub state only for a request during which
\* githubUsername did not change and no other resume was parsed.
AppliedInTime(fetch) ==
  fetch.status = "applied" => ~fetch.stale /\ fetch.appliedResume = fetch.resume

\* C25: in the page component, whatever the order of uploads and analytics
\* responses, a response (data or error) to the request started for a username
\* is applied to githubProfile, githubError and githubLoading only if the
\* parsed username has not changed since the request started; a late response
\* of a previous resume never overwrites the GitHub state of the current one,
\* so the profile shown is that of the current username.
C25_LateResponsesDropped ==
  /\ \A k \in 1..Len(githubFetches) : AppliedInTime(githubFetches[k])
  /\ (~IsNull(page.githubProfile)
        => Some(page.githubProfile[1].login) = currentGithubUsername(page))
  /\ (~IsNull(page.githubError) \/ page.githubLoading
        => ~IsNull(currentGithubUsername(page)))

\* C25 witness: the response to the request of a first resume arrived after
\* a second resume with another username was parsed and was dropped, and the
\* response to the request of the second resume was applied.
C25_Witness ==
  \E k, j \in 1..Len(githubFetches) :
    /\ githubFetches[k].status = "dropped"
    /\ githubFetches[k].stale
    /\ githubFetches[k].appliedResume > githubFetches[k].resume
    /\ githubFetches[j].status = "applied"
    /\ githubFetches[j].username # githubFetches[k].username
    /\ page.githubProfile = Some([login |-> githubFetches[j].username])

====
